---- MODULE Spec2Model ----
(***************************************************************************)
(* Model of server/pcapport.cpp (Ostinato): the per-port packet I/O        *)
(* workers.  The PortTransmitter is modelled in full: the construction API *)
(* that builds the list of PacketSequences, and the replay worker with its *)
(* start()/stop() callers.                                                 *)
(*                                                                         *)
(* Indices are the code's 0-based indices; a TLA+ sequence is 1-based, so  *)
(* packetSequenceList_.at(n) is At(list, n) == list[n + 1].                *)
(***************************************************************************)
EXTENDS Integers, Sequences, FiniteSets, TLC

(***************************************************************************)
(* Bounds of the model.                                                    *)
(***************************************************************************)
\* capacity of one sendqueue buffer, in the units packet lengths are given in
SendQueueMaxLen == 7
\* sequences in a list and packets appended to a list (construction inputs)
MaxSeqs == 3
MaxPkts == 3
\* the clock: a measurement returns 0..MaxElapsed microseconds, and at most
\* MaxTicks measurements of one run return more than 0
MaxElapsed == 1
MaxTicks == 1
\* sends of one run that fail on the handle
MaxSendFailures == 1
\* packets one capture dumps, and packets one transceiver run reads
MaxDumped == 1
MaxRx == 2
\* the statistics counters are kept modulo CounterMod (quint64 in the code)
CounterMod == 3

(***************************************************************************)
(* Program constants.                                                      *)
(***************************************************************************)
\* sizeof(pcap_pkthdr), in the units packet lengths are given in
SizeofPktHdr == 1
\* a NULL currentPacketSequence_
NULL == -1
\* a member the constructor leaves unset
Indeterminate == -9
\* long(1e6): microseconds per second
UsecPerSec == 1000000
\* the fast path is taken for sequences of at most 1 s
FastPathMaxUsec == 1000000

kNotStarted == "NotStarted"
kRunning == "Running"
kFinished == "Finished"

(***************************************************************************)
(* Helpers.                                                                *)
(***************************************************************************)
Min(a, b) == IF a < b THEN a ELSE b

\* C++ integer division truncates toward zero
CDiv(a, b) == IF a >= 0 THEN a \div b ELSE -((-a) \div b)

\* packetSequenceList_.at(n) / operator[](n), n 0-based
At(list, n) == list[n + 1]
InList(list, n) == n >= 0 /\ n < Len(list)

(***************************************************************************)
(* PacketSequence (pcapport.h).                                            *)
(***************************************************************************)
NewPacketSequence ==
    [ pkts          |-> << >>,
      packets_      |-> 0,
      bytes_        |-> 0,
      usecDuration_ |-> 0,
      repeatCount_  |-> 1,
      repeatSize_   |-> 1,
      usecDelay_    |-> 0 ]

RECURSIVE QueueLen(_)
\* sendQueue_->len: every record is a header followed by caplen bytes
QueueLen(pkts) ==
    IF pkts = << >> THEN 0
    ELSE SizeofPktHdr + Head(pkts).len + QueueLen(Tail(pkts))

\* PacketSequence::hasFreeSpace(size)
hasFreeSpace(seq, size) == QueueLen(seq.pkts) + size <= SendQueueMaxLen

\* usecs between two packet headers: (a.sec - b.sec) * 1e6 + (a.usec - b.usec)
TsDiff(a, b) == (a.sec - b.sec) * UsecPerSec + (a.usec - b.usec)

\* PacketSequence::appendPacket(hdr, data)
appendPacket(seq, hdr) ==
    [ seq EXCEPT
        !.usecDuration_ = IF seq.pkts = << >> THEN @
                          ELSE @ + TsDiff(hdr, seq.pkts[Len(seq.pkts)]),
        !.packets_ = @ + 1,
        !.bytes_ = @ + hdr.len,
        !.pkts = Append(@, hdr) ]

(***************************************************************************)
(* The construction API, as functions of the transmitter's construction    *)
(* members b = [list, cur, rstart, rsize, pcount, retq, ldelay].           *)
(***************************************************************************)
\* PortTransmitter::setPacketListLoopMode(loop, returnIndex, delayUsec)
setPacketListLoopMode(b, loop, idx, usec) ==
    [ b EXCEPT !.retq = IF loop THEN idx ELSE -1, !.ldelay = usec ]

\* clearPacketList leaving packetCount_ as it was
ClearKeepsPacketCount(b) ==
    setPacketListLoopMode(
        [ b EXCEPT !.list = << >>, !.cur = NULL, !.rstart = -1,
                   !.rsize = 0, !.retq = -1 ],
        FALSE, 0, 0)

\* PortTransmitter::clearPacketList()
clearPacketList(b) ==
    setPacketListLoopMode(
        [ b EXCEPT !.list = << >>, !.cur = NULL, !.rstart = -1,
                   !.rsize = 0, !.pcount = 0, !.retq = -1 ],
        FALSE, 0, 0)

\* the repeat delay loopNextPacketSet computes
RepeatDelay(delaySec, delayNsec) == delaySec * UsecPerSec + CDiv(delayNsec, 1000)

\* PortTransmitter::loopNextPacketSet(size, repeats, delaySec, delayNsec)
loopNextPacketSet(b, size, repeats, delaySec, delayNsec) ==
    [ b EXCEPT
        !.list = Append(@, [ NewPacketSequence EXCEPT
                                !.repeatCount_ = repeats,
                                !.usecDelay_ = RepeatDelay(delaySec, delayNsec) ]),
        !.cur = Len(b.list),
        !.rstart = Len(b.list),
        !.rsize = size,
        !.pcount = 0 ]

\* the pcap_pkthdr appendToPacketList fills in
PktHdr(sec, nsec, length) == [ sec |-> sec, usec |-> CDiv(nsec, 1000), len |-> length ]

\* appendToPacketList, lines 452-475: pick the sequence the packet goes to
AppendOpenSequence(b, hdr) ==
    IF b.cur = NULL \/ ~hasFreeSpace(At(b.list, b.cur), 2 * SizeofPktHdr + hdr.len)
    THEN LET closed ==
                 IF b.cur # NULL
                 THEN [ b.list EXCEPT ![b.cur + 1].usecDelay_ =
                            TsDiff(hdr, At(b.list, b.cur).pkts[Len(At(b.list, b.cur).pkts)]) ]
                 ELSE b.list
         IN  [ b EXCEPT !.list = Append(closed, NewPacketSequence),
                        !.cur = Len(b.list) ]
    ELSE b

\* AppendCloseGroup leaving the sequence of the last packet out of the group
AppendCloseGroupShort(b) ==
    LET n == b.pcount + 1 IN
    IF b.rsize > 0 /\ n = b.rsize
    THEN LET moved ==
                 IF b.cur # b.rstart
                 THEN [ b.list EXCEPT
                          ![b.cur + 1].usecDelay_ = At(b.list, b.rstart).usecDelay_,
                          ![b.rstart + 1].usecDelay_ = 0,
                          ![b.rstart + 1].repeatSize_ = b.cur - b.rstart ]
                 ELSE b.list
         IN  [ b EXCEPT !.list = moved, !.pcount = n, !.rsize = 0, !.cur = NULL ]
    ELSE [ b EXCEPT !.pcount = n ]

\* appendToPacketList, lines 482-506: count the packet and close a full group
AppendCloseGroup(b) ==
    LET n == b.pcount + 1 IN
    IF b.rsize > 0 /\ n = b.rsize
    THEN LET moved ==
                 IF b.cur # b.rstart
                 THEN [ b.list EXCEPT
                          ![b.cur + 1].usecDelay_ = At(b.list, b.rstart).usecDelay_,
                          ![b.rstart + 1].usecDelay_ = 0,
                          ![b.rstart + 1].repeatSize_ = Len(b.list) - b.rstart ]
                 ELSE b.list
         IN  [ b EXCEPT !.list = moved, !.pcount = n, !.rsize = 0, !.cur = NULL ]
    ELSE [ b EXCEPT !.pcount = n ]

\* PortTransmitter::appendToPacketList(sec, nsec, packet, length)
appendToPacketList(b, sec, nsec, length) ==
    LET hdr == PktHdr(sec, nsec, length)
        b1  == AppendOpenSequence(b, hdr)
        b2  == [ b1 EXCEPT !.list[b1.cur + 1] = appendPacket(@, hdr) ]
    IN  AppendCloseGroup(b2)

(***************************************************************************)
(* State.                                                                  *)
(***************************************************************************)
VARIABLES
    \* PortTransmitter: construction members
    packetSequenceList_, currentPacketSequence_, repeatSequenceStart_,
    repeatSize_, packetCount_, returnToQIdx_, loopDelay_,
    \* PortTransmitter: state_, stop_ and the frame of run()
    state_, stop_, run,
    \* the thread that calls start() and stop()
    ctl,
    \* the build takes the batch-send fast path (Q_OS_WIN32)
    fastPath,
    \* the statistics objects: the transmitter's own and the Port's, and which
    \* of them stats_ points to
    privStats, portStats, usingInternalStats_,
    \* the environment of one run: clock measurements that returned more than
    \* 0, and sends that failed on the handle
    ticks, sendErrors,
    \* observation of one pass of the replay: the sends, the waits and the exit
    \* through ret < 0, in order,
    \* whether the replay has jumped back to returnToQIdx_, and the sends that
    \* succeeded on the handle (count and bytes, modulo CounterMod)
    trace, looped, okPkts, okBytes,
    \* observation of the construction calls: the delay the open repeat group
    \* was configured with, and the groups completed so far
    cfgDelay, closedGroups,
    \* PcapPort: where its constructor, init() and destructor have got to, its
    \* two monitors (by direction), its capturer and emulation transceiver, and
    \* whether delete transmitter_ has run
    portPc, monitor, capturer, emulXcvr, transmitterDeleted,
    \* PortTransmitter: handle_ and usingInternalHandle_, and the pcap_open_live
    \* and pcap_close calls made so far, in order
    handle_, usingInternalHandle_, handleLog

buildVars == << packetSequenceList_, currentPacketSequence_, repeatSequenceStart_,
                repeatSize_, packetCount_, returnToQIdx_, loopDelay_ >>
buildObs == << cfgDelay, closedGroups >>
xmitVars == << state_, stop_, run, ctl >>
envVars == << fastPath, ticks, sendErrors >>
statVars == << privStats, portStats, usingInternalStats_ >>
obsVars == << trace, looped, okPkts, okBytes >>
replayVars == << xmitVars, envVars, statVars, obsVars >>
portVars == << portPc, monitor, capturer, emulXcvr, transmitterDeleted >>
handleVars == << handle_, usingInternalHandle_, handleLog >>
vars == << buildVars, buildObs, replayVars, portVars, handleVars >>

\* the construction members as one record, and their assignment
B == [ list   |-> packetSequenceList_,
       cur    |-> currentPacketSequence_,
       rstart |-> repeatSequenceStart_,
       rsize  |-> repeatSize_,
       pcount |-> packetCount_,
       retq   |-> returnToQIdx_,
       ldelay |-> loopDelay_ ]

SetB(b) ==
    /\ packetSequenceList_' = b.list
    /\ currentPacketSequence_' = b.cur
    /\ repeatSequenceStart_' = b.rstart
    /\ repeatSize_' = b.rsize
    /\ packetCount_' = b.pcount
    /\ returnToQIdx_' = b.retq
    /\ loopDelay_' = b.ldelay

\* PortTransmitter::isRunning()
isRunning == state_ = kRunning

\* the frame of a worker that is not executing run()
\* what one call of sendQueueTransmit has been through: overHead on entry
\* (in), and the sums of the gaps between timestamps (gaps), of the measured
\* times (ovh) and of the waits requested (waits); ovh1 is the time spent
\* before the first packet and maxOvh the longest time measured
NoAccount == [ in |-> 0, gaps |-> 0, ovh |-> 0, waits |-> 0, ovh1 |-> 0, maxOvh |-> 0 ]

\* the locals of run() and of sendQueueTransmit(), none being executed
NoFrame == [ pc |-> "none", i |-> 0, j |-> 0, k |-> 0, rptSz |-> 0, rptCnt |-> 0,
             overHead |-> 0, hdr |-> 0, ret |-> 0, acct |-> NoAccount ]

\* AbstractPort::PortStats, all counters zero
NoStats == [ rxPkts |-> 0, rxBytes |-> 0, txPkts |-> 0, txBytes |-> 0 ]

\* PortTransmitter::PortTransmitter(device): the members it sets; the
\* construction members other than the (empty) list are left unset
InitTransmitter ==
    /\ packetSequenceList_ = << >>
    /\ currentPacketSequence_ = Indeterminate
    /\ repeatSequenceStart_ = Indeterminate
    /\ repeatSize_ = Indeterminate
    /\ packetCount_ = Indeterminate
    /\ returnToQIdx_ = -1
    /\ loopDelay_ = 0
    /\ state_ = kNotStarted
    /\ stop_ = FALSE
    /\ run = NoFrame
    /\ ctl = "idle"
    /\ privStats = NoStats
    /\ portStats = NoStats
    /\ usingInternalStats_ = TRUE
    /\ ticks = 0
    /\ sendErrors = 0
    /\ trace = << >>
    /\ looped = FALSE
    /\ okPkts = 0
    /\ okBytes = 0
    /\ cfgDelay = 0
    /\ closedGroups = {}

kDirectionRx == "kDirectionRx"
kDirectionTx == "kDirectionTx"
Directions == { kDirectionRx, kDirectionTx }

\* PortMonitor::PortMonitor(device, direction, stats) on a device that opens:
\* isDirectional_ is whether pcap_setdirection() succeeded
NewPortMonitor(directional) ==
    [ isDirectional_ |-> directional, stop_ |-> FALSE, pc |-> "none", deleted |-> FALSE ]

\* a handle pcap_open_live() returned to a capturer or a transceiver
LiveHandle == "live"

\* PortCapturer::PortCapturer(device): capFile_.open() succeeds (opened) or
\* only warns. outcome is how the last run() went and dumped counts the
\* packets pcap_dump wrote to the capture file.
NewCapturer(opened) ==
    [ state_ |-> kNotStarted, stop_ |-> FALSE, pc |-> "none", deleted |-> FALSE,
      capFileOpen |-> opened, handle_ |-> "NULL", outcome |-> "none", dumped |-> 0 ]

\* EmulationTransceiver::EmulationTransceiver(device, deviceManager).
\* received are the packets pcap_next_ex returned since run() was entered and
\* forwarded the ones handed to deviceManager_->receivePacket.
NewEmulationTransceiver ==
    [ state_ |-> kNotStarted, stop_ |-> FALSE, pc |-> "none", deleted |-> FALSE,
      handle_ |-> "NULL", outcome |-> "none", received |-> << >>, forwarded |-> << >> ]

\* PcapPort::PcapPort(id, device) on a usable device
PcapPort(directionalRx, directionalTx, capFileOpened) ==
    /\ portPc = "constructed"
    /\ monitor = [ d \in Directions |->
                     NewPortMonitor(IF d = kDirectionRx THEN directionalRx
                                    ELSE directionalTx) ]
    /\ capturer = NewCapturer(capFileOpened)
    /\ emulXcvr = NewEmulationTransceiver
    /\ transmitterDeleted = FALSE

\* the handle the transmitter opens for itself, and no handle
OwnHandle == "own"
NoHandle == "NULL"

\* PortTransmitter::PortTransmitter(device), lines 368-379: pcap_open_live
\* succeeds (opened) or returns NULL
OpenHandle(opened) ==
    /\ handle_ = IF opened THEN OwnHandle ELSE NoHandle
    /\ usingInternalHandle_ = opened
    /\ handleLog = IF opened
                   THEN << [ op |-> "open", by |-> "transmitter", h |-> OwnHandle ] >>
                   ELSE << >>

InitBuild == InitTransmitter /\ fastPath = FALSE /\ PcapPort(TRUE, TRUE, TRUE) /\ OpenHandle(TRUE)

(***************************************************************************)
(* Construction calls.  Inputs are drawn from these sets.                  *)
(***************************************************************************)
GroupSizes == {1, 2}
RepeatCounts == {0, 2}
\* (delaySec, delayNsec)
RepeatDelays == { <<0, 5999>> }
\* (sec, nsec) packet timestamps
Stamps == { <<0, 0>>, <<0, 100000>>, <<0, 300000>> }
PktLens == {1, 3}
LoopDelays == {3}
ReturnIndexes == {1}

TotalPkts(list) ==
    LET RECURSIVE Sum(_)
        Sum(n) == IF n = 0 THEN 0 ELSE list[n].packets_ + Sum(n - 1)
    IN  Sum(Len(list))

\* the timestamp of the packet appended last, as (sec, usec); packets are
\* appended in time order
LastStamp(list) ==
    LET RECURSIVE Last(_)
        Last(n) == IF n = 0 THEN << 0, 0 >>
                   ELSE IF list[n].pkts = << >> THEN Last(n - 1)
                   ELSE LET h == list[n].pkts[Len(list[n].pkts)] IN << h.sec, h.usec >>
    IN  Last(Len(list))

InTimeOrder(list, sec, nsec) ==
    LET l == LastStamp(list) IN
    sec > l[1] \/ (sec = l[1] /\ CDiv(nsec, 1000) >= l[2])

\* clearPacketList(): its Q_ASSERT(!isRunning()) is its guard
ClearPacketList ==
    /\ ~isRunning
    /\ SetB(clearPacketList(B))
    /\ cfgDelay' = 0
    /\ closedGroups' = {}
    /\ UNCHANGED << handleVars, portVars, replayVars >>

LoopNextPacketSet(size, repeats, delaySec, delayNsec) ==
    /\ Len(packetSequenceList_) < MaxSeqs
    /\ SetB(loopNextPacketSet(B, size, repeats, delaySec, delayNsec))
    /\ cfgDelay' = RepeatDelay(delaySec, delayNsec)
    /\ UNCHANGED << handleVars, portVars, closedGroups, replayVars >>

\* a call made before currentPacketSequence_ was ever assigned dereferences an
\* indeterminate pointer: the callers in abstractport.cpp clear the list first
AppendToPacketList(sec, nsec, length) ==
    /\ currentPacketSequence_ # Indeterminate
    /\ TotalPkts(packetSequenceList_) < MaxPkts
    /\ LET b == appendToPacketList(B, sec, nsec, length) IN
       /\ Len(b.list) <= MaxSeqs
       /\ SetB(b)
       /\ closedGroups' =
            IF repeatSize_ > 0 /\ packetCount_ + 1 = repeatSize_
            THEN closedGroups \cup { [ start |-> repeatSequenceStart_,
                                       last  |-> Len(b.list) - 1,
                                       delay |-> cfgDelay ] }
            ELSE closedGroups
    /\ UNCHANGED << handleVars, portVars, cfgDelay, replayVars >>

SetPacketListLoopMode(loop, idx, usec) ==
    /\ SetB(setPacketListLoopMode(B, loop, idx, usec))
    /\ UNCHANGED << handleVars, portVars, buildObs, replayVars >>

\* callers that keep to the contract: construction only while not running
BuildNext ==
    \/ ClearPacketList
    \/ \E size \in GroupSizes, repeats \in RepeatCounts, d \in RepeatDelays :
          ~isRunning /\ LoopNextPacketSet(size, repeats, d[1], d[2])
    \/ \E ts \in Stamps, length \in PktLens :
          /\ ~isRunning
          /\ InTimeOrder(packetSequenceList_, ts[1], ts[2])
          /\ AppendToPacketList(ts[1], ts[2], length)
    \/ \E loop \in BOOLEAN, idx \in ReturnIndexes, usec \in LoopDelays :
          ~isRunning /\ SetPacketListLoopMode(loop, idx, usec)

SpecBuild == InitBuild /\ [][BuildNext]_vars

(***************************************************************************)
(* The replay worker: PortTransmitter::run() and sendQueueTransmit().      *)
(* run.pc is the worker's position; "none" when no worker thread runs.     *)
(***************************************************************************)
\* one clock measurement udiffTimeStamp(&ovrStart, &ovrEnd) returning e
Elapsed(e) ==
    /\ e \in 0 .. MaxElapsed
    /\ e > 0 => ticks < MaxTicks
    /\ ticks' = IF e > 0 THEN ticks + 1 ELSE ticks

\* a delay step that leaves what it waited in overHead
ObserveDelayKeepsOverhead(usecs) ==
    [ wait |-> IF usecs > 0 THEN usecs ELSE 0, overHead |-> usecs ]

\* "usecs > 0 ? udelayFn_(usecs), overHead = 0 : overHead = usecs"
ObserveDelay(usecs) ==
    IF usecs > 0 THEN [ wait |-> usecs, overHead |-> 0 ]
    ELSE [ wait |-> 0, overHead |-> usecs ]

\* the account of a call after the step before a packet: the gap usec to the
\* packet, e measured and the delay d observed
Accounted(a, first, usec, e, d) ==
    [ a EXCEPT !.gaps = @ + usec, !.ovh = @ + e, !.waits = @ + d.wait,
               !.ovh1 = IF first THEN e + d.wait ELSE @,
               !.maxOvh = IF e > @ THEN e ELSE @ ]

\* the trace after a delay step at `at`: a wait is a call of udelayFn_
Waited(tr, at, d) ==
    IF d.wait > 0 THEN Append(tr, [ e |-> "wait", at |-> at, us |-> d.wait ]) ELSE tr

\* stats_->txPkts += n; stats_->txBytes += bytes
TxAdd(n, bytes) ==
    LET add(st) == [ st EXCEPT !.txPkts = (@ + n) % CounterMod,
                               !.txBytes = (@ + bytes) % CounterMod ]
    IN  IF usingInternalStats_
        THEN privStats' = add(privStats) /\ UNCHANGED portStats
        ELSE portStats' = add(portStats) /\ UNCHANGED privStats

\* the object stats_ points to
TxStats == IF usingInternalStats_ THEN privStats ELSE portStats

\* RunEntry with the size test off by one: a list of one sequence is taken for
\* an empty one
RunEntrySizeOffByOne ==
    /\ run.pc = "entry"
    /\ IF Len(packetSequenceList_) <= 1
       THEN /\ run' = [ run EXCEPT !.pc = "exit" ]
            /\ UNCHANGED state_
       ELSE /\ state_' = kRunning
            /\ run' = [ run EXCEPT !.pc = "while", !.i = 0 ]
    /\ UNCHANGED << handleVars, portVars, buildVars, buildObs, stop_, ctl, envVars, statVars, obsVars >>

\* run(), lines 547-562: an empty list goes straight to _exit
RunEntry ==
    /\ run.pc = "entry"
    /\ IF Len(packetSequenceList_) <= 0
       THEN /\ run' = [ run EXCEPT !.pc = "exit" ]
            /\ UNCHANGED state_
       ELSE /\ state_' = kRunning
            /\ run' = [ run EXCEPT !.pc = "while", !.i = 0 ]
    /\ UNCHANGED << handleVars, portVars, buildVars, buildObs, stop_, ctl, envVars, statVars, obsVars >>

\* line 563: while (i < packetSequenceList_.size())
RunWhile ==
    /\ run.pc = "while"
    /\ run' = [ run EXCEPT !.pc = IF run.i < Len(packetSequenceList_)
                                  THEN "restart" ELSE "end" ]
    /\ UNCHANGED << handleVars, portVars, buildVars, buildObs, state_, stop_, ctl, envVars, statVars, obsVars >>

\* lines 566-568, _restart: read the group's size and count; an index outside
\* the list is an invalid read, which ends the worker
RunRestart ==
    /\ run.pc = "restart"
    /\ IF InList(packetSequenceList_, run.i)
       THEN run' = [ run EXCEPT !.pc = "forJ", !.j = 0,
                       !.rptSz = At(packetSequenceList_, run.i).repeatSize_,
                       !.rptCnt = At(packetSequenceList_, run.i).repeatCount_ ]
       ELSE run' = [ run EXCEPT !.pc = "fault" ]
    /\ UNCHANGED << handleVars, portVars, buildVars, buildObs, state_, stop_, ctl, envVars, statVars, obsVars >>

\* RunForJ stepping over one sequence instead of the whole group (i += 1)
RunForJStepsByOne ==
    /\ run.pc = "forJ"
    /\ IF run.j < run.rptCnt
       THEN run' = [ run EXCEPT !.pc = "forK", !.k = 0 ]
       ELSE run' = [ run EXCEPT !.pc = "while", !.i = run.i + 1 ]
    /\ UNCHANGED << handleVars, portVars, buildVars, buildObs, state_, stop_, ctl, envVars, statVars, obsVars >>

\* line 570: for (j < rptCnt), and line 629 when the loop is over
RunForJ ==
    /\ run.pc = "forJ"
    /\ IF run.j < run.rptCnt
       THEN run' = [ run EXCEPT !.pc = "forK", !.k = 0 ]
       ELSE run' = [ run EXCEPT !.pc = "while", !.i = run.i + run.rptSz ]
    /\ UNCHANGED << handleVars, portVars, buildVars, buildObs, state_, stop_, ctl, envVars, statVars, obsVars >>

\* the fast path is compiled in and the sequence lasts at most 1 s (line 579)
TakesFastPath(seq) == fastPath /\ seq.usecDuration_ <= FastPathMaxUsec

\* lines 572-605: for (k < rptSz), read seq and choose the transmit path
RunForK ==
    /\ run.pc = "forK"
    /\ IF run.k < run.rptSz
       THEN IF InList(packetSequenceList_, run.i + run.k)
            THEN run' = [ run EXCEPT
                            !.pc = IF TakesFastPath(At(packetSequenceList_, run.i + run.k))
                                   THEN "batch" ELSE "sqWait",
                            !.hdr = 0,
                            !.acct = [ NoAccount EXCEPT !.in = run.overHead ] ]
            ELSE run' = [ run EXCEPT !.pc = "fault" ]
       ELSE run' = [ run EXCEPT !.pc = "forJ", !.j = run.j + 1 ]
    /\ UNCHANGED << handleVars, portVars, buildVars, buildObs, state_, stop_, ctl, envVars, statVars, obsVars >>

\* the sequence being transmitted
CurSeq == At(packetSequenceList_, run.i + run.k)

\* sendQueueTransmit, lines 697-722: the loop test and the sync wait before
\* packet run.hdr; ts is the previous packet's timestamp (the first packet's
\* own before the first)
\* sendQueueTransmit measuring every gap from the first packet of the queue
SqWaitFromFirst ==
    /\ run.pc = "sqWait"
    /\ IF run.hdr < Len(CurSeq.pkts)
       THEN \E e \in 0 .. MaxElapsed :
              /\ Elapsed(e)
              /\ LET pkts == CurSeq.pkts
                     ts   == pkts[1]
                     usec == TsDiff(pkts[run.hdr + 1], ts)
                     d    == ObserveDelay(usec + (run.overHead - e))
                 IN  /\ run' = [ run EXCEPT !.pc = "sqSend", !.overHead = d.overHead,
                                            !.acct = Accounted(@, run.hdr = 0, usec, e, d) ]
                     /\ trace' = Waited(trace, "pkt", d)
       ELSE /\ run' = [ run EXCEPT !.pc = "ret", !.ret = 0 ]
            /\ UNCHANGED << ticks, trace >>
    /\ UNCHANGED << handleVars, portVars, buildVars, buildObs, state_, stop_, ctl, fastPath, sendErrors,
                    statVars, looped, okPkts, okBytes >>

SqWait ==
    /\ run.pc = "sqWait"
    /\ IF run.hdr < Len(CurSeq.pkts)
       THEN \E e \in 0 .. MaxElapsed :
              /\ Elapsed(e)
              /\ LET pkts == CurSeq.pkts
                     ts   == pkts[IF run.hdr = 0 THEN 1 ELSE run.hdr]
                     usec == TsDiff(pkts[run.hdr + 1], ts)
                     d    == ObserveDelay(usec + (run.overHead - e))
                 IN  /\ run' = [ run EXCEPT !.pc = "sqSend", !.overHead = d.overHead,
                                            !.acct = Accounted(@, run.hdr = 0, usec, e, d) ]
                     /\ trace' = Waited(trace, "pkt", d)
       ELSE /\ run' = [ run EXCEPT !.pc = "ret", !.ret = 0 ]
            /\ UNCHANGED << ticks, trace >>
    /\ UNCHANGED << handleVars, portVars, buildVars, buildObs, state_, stop_, ctl, fastPath, sendErrors,
                    statVars, looped, okPkts, okBytes >>

\* whether pcap_sendpacket succeeds (ok) is the handle's choice
SendOutcome(ok) ==
    /\ ok \in BOOLEAN
    /\ ~ok => sendErrors < MaxSendFailures
    /\ sendErrors' = IF ok THEN sendErrors ELSE sendErrors + 1

\* sendQueueTransmit never testing stop_ after a send
SqSendIgnoresStop ==
    /\ run.pc = "sqSend"
    /\ \E ok \in BOOLEAN :
         /\ SendOutcome(ok)
         /\ LET pktLen == CurSeq.pkts[run.hdr + 1].len IN
            /\ TxAdd(1, pktLen)
            /\ trace' = Append(trace, [ e |-> "pkt", s |-> run.i + run.k,
                                        p |-> run.hdr, ok |-> ok ])
            /\ okPkts' = IF ok THEN (okPkts + 1) % CounterMod ELSE okPkts
            /\ okBytes' = IF ok THEN (okBytes + pktLen) % CounterMod ELSE okBytes
    /\ run' = [ run EXCEPT !.pc = "sqWait", !.hdr = run.hdr + 1 ]
    /\ UNCHANGED << handleVars, portVars, buildVars, buildObs, state_, stop_, ctl, fastPath, ticks,
                    usingInternalStats_, looped >>

\* sendQueueTransmit, lines 724-737: send the packet, count it, step to the
\* next one and return -2 when stop_ is set
SqSend ==
    /\ run.pc = "sqSend"
    /\ \E ok \in BOOLEAN :
         /\ SendOutcome(ok)
         /\ LET pktLen == CurSeq.pkts[run.hdr + 1].len IN
            /\ TxAdd(1, pktLen)
            /\ trace' = Append(trace, [ e |-> "pkt", s |-> run.i + run.k,
                                        p |-> run.hdr, ok |-> ok ])
            /\ okPkts' = IF ok THEN (okPkts + 1) % CounterMod ELSE okPkts
            /\ okBytes' = IF ok THEN (okBytes + pktLen) % CounterMod ELSE okBytes
    /\ run' = IF stop_ THEN [ run EXCEPT !.pc = "ret", !.ret = -2, !.hdr = run.hdr + 1 ]
              ELSE [ run EXCEPT !.pc = "sqWait", !.hdr = run.hdr + 1 ]
    /\ UNCHANGED << handleVars, portVars, buildVars, buildObs, state_, stop_, ctl, fastPath, ticks,
                    usingInternalStats_, looped >>

\* the events of a whole sequence sent by the batch call
BatchEvents(s, n) == [ p \in 1 .. n |-> [ e |-> "pkt", s |-> s, p |-> p - 1, ok |-> TRUE ] ]

\* lines 579-596: pcap_sendqueue_transmit of the whole sequence; it takes the
\* sequence's duration, give or take what the clock measures
RunBatch ==
    /\ run.pc = "batch"
    /\ \E ok \in BOOLEAN, e \in 0 .. MaxElapsed, late \in BOOLEAN :
         /\ SendOutcome(ok)
         /\ Elapsed(e)
         /\ LET seq == CurSeq
                measured == IF late THEN seq.usecDuration_ + e
                            ELSE IF seq.usecDuration_ >= e THEN seq.usecDuration_ - e
                            ELSE 0
                ret == IF ok THEN 0 ELSE -1
            IN  /\ IF ok
                   THEN /\ TxAdd(seq.packets_, seq.bytes_)
                        /\ trace' = trace \o BatchEvents(run.i + run.k, seq.packets_)
                        /\ okPkts' = (okPkts + seq.packets_) % CounterMod
                        /\ okBytes' = (okBytes + seq.bytes_) % CounterMod
                   ELSE /\ trace' = Append(trace, [ e |-> "batchfail", s |-> run.i + run.k ])
                        /\ UNCHANGED << privStats, portStats, okPkts, okBytes >>
                /\ run' = [ run EXCEPT
                              !.pc = "ret",
                              !.overHead = IF ok THEN @ + (seq.usecDuration_ - measured)
                                           ELSE @,
                              !.ret = IF stop_ THEN -2 ELSE ret ]
    /\ UNCHANGED << handleVars, portVars, buildVars, buildObs, state_, stop_, ctl, fastPath,
                    usingInternalStats_, looped >>

\* lines 607-625: the post-sequence delay on success; on ret < 0 clear stop_
\* and leave
RunAfterTransmit ==
    /\ run.pc = "ret"
    /\ IF run.ret >= 0
       THEN LET d == ObserveDelay(CurSeq.usecDelay_ + run.overHead) IN
            /\ run' = [ run EXCEPT !.pc = "forK", !.k = run.k + 1,
                                   !.overHead = d.overHead ]
            /\ trace' = Waited(trace, "seq", d)
            /\ UNCHANGED stop_
       ELSE /\ stop_' = FALSE
            /\ run' = [ run EXCEPT !.pc = "exit" ]
            /\ trace' = Append(trace, [ e |-> "abort", ret |-> run.ret ])
    /\ UNCHANGED << handleVars, portVars, buildVars, buildObs, state_, ctl, envVars, statVars,
                    looped, okPkts, okBytes >>

\* RunEnd jumping back to the head of the list instead of returnToQIdx_
RunEndToHead ==
    /\ run.pc = "end"
    /\ IF returnToQIdx_ >= 0
       THEN LET d == ObserveDelay(loopDelay_ + run.overHead) IN
            /\ run' = [ run EXCEPT !.pc = "restart", !.i = 0,
                                   !.overHead = d.overHead ]
            /\ trace' = Waited(<< >>, "loop", d)
            /\ looped' = TRUE
       ELSE /\ run' = [ run EXCEPT !.pc = "exit" ]
            /\ UNCHANGED << trace, looped >>
    /\ UNCHANGED << handleVars, portVars, buildVars, buildObs, state_, stop_, ctl, envVars, statVars,
                    okPkts, okBytes >>

\* lines 632-646: at the end of the list, the outer loop's delay and the jump
\* to _restart, or _exit
RunEnd ==
    /\ run.pc = "end"
    /\ IF returnToQIdx_ >= 0
       THEN LET d == ObserveDelay(loopDelay_ + run.overHead) IN
            /\ run' = [ run EXCEPT !.pc = "restart", !.i = returnToQIdx_,
                                   !.overHead = d.overHead ]
            /\ trace' = Waited(<< >>, "loop", d)
            /\ looped' = TRUE
       ELSE /\ run' = [ run EXCEPT !.pc = "exit" ]
            /\ UNCHANGED << trace, looped >>
    /\ UNCHANGED << handleVars, portVars, buildVars, buildObs, state_, stop_, ctl, envVars, statVars,
                    okPkts, okBytes >>

\* lines 648-650, _exit: state_ = kFinished, and the thread ends
RunExit ==
    /\ run.pc = "exit"
    /\ state_' = kFinished
    /\ run' = NoFrame
    /\ UNCHANGED << handleVars, portVars, buildVars, buildObs, stop_, ctl, envVars, statVars, obsVars >>

Worker ==
    \/ RunEntry \/ RunWhile \/ RunRestart \/ RunForJ \/ RunForK
    \/ SqWait \/ SqSend \/ RunBatch \/ RunAfterTransmit \/ RunEnd \/ RunExit

(***************************************************************************)
(* start() and stop(), called from one controlling thread (ctl).           *)
(***************************************************************************)
\* start(), lines 655-658: already running, warn and return
StartIgnored ==
    /\ ctl = "idle"
    /\ state_ = kRunning
    /\ UNCHANGED vars

\* start(), lines 660-661: state_ = kNotStarted; QThread::start()
Start ==
    /\ ctl = "idle"
    /\ state_ # kRunning
    /\ run.pc = "none"
    /\ state_' = kNotStarted
    /\ run' = [ NoFrame EXCEPT !.pc = "entry" ]
    /\ ctl' = "starting"
    /\ ticks' = 0
    /\ sendErrors' = 0
    /\ trace' = << >>
    /\ looped' = FALSE
    /\ UNCHANGED << handleVars, portVars, buildVars, buildObs, stop_, fastPath, statVars, okPkts, okBytes >>

\* start(), lines 663-664: poll until state_ is not kNotStarted
StartReturn ==
    /\ ctl = "starting"
    /\ state_ # kNotStarted
    /\ ctl' = "idle"
    /\ UNCHANGED << handleVars, portVars, buildVars, buildObs, state_, stop_, run, envVars, statVars, obsVars >>

\* stop(), lines 674-678: not running, warn and return
StopIgnored ==
    /\ ctl = "idle"
    /\ state_ # kRunning
    /\ UNCHANGED vars

\* stop(), line 669: the test state_ == kRunning succeeded
StopBegin ==
    /\ ctl = "idle"
    /\ state_ = kRunning
    /\ ctl' = "stopSet"
    /\ UNCHANGED << handleVars, portVars, buildVars, buildObs, state_, stop_, run, envVars, statVars, obsVars >>

\* stop(), line 670: stop_ = true
StopSet ==
    /\ ctl = "stopSet"
    /\ stop_' = TRUE
    /\ ctl' = "stopping"
    /\ trace' = Append(trace, [ e |-> "stop" ])
    /\ UNCHANGED << handleVars, portVars, buildVars, buildObs, state_, run, envVars, statVars,
                    looped, okPkts, okBytes >>

\* stop(), lines 671-672: poll until state_ is not kRunning
StopReturn ==
    /\ ctl = "stopping"
    /\ state_ # kRunning
    /\ ctl' = "idle"
    /\ UNCHANGED << handleVars, portVars, buildVars, buildObs, state_, stop_, run, envVars, statVars, obsVars >>

Control ==
    \/ StartIgnored \/ Start \/ StartReturn
    \/ StopIgnored \/ StopBegin \/ StopSet \/ StopReturn

(***************************************************************************)
(* The replay specification: the list is one built by the construction API *)
(* from a script of calls, then start(), stop() and the worker run.        *)
(***************************************************************************)
Loop(size, repeats, delaySec, delayNsec) == << "loop", size, repeats, delaySec, delayNsec >>
Pkt(sec, nsec, length) == << "pkt", sec, nsec, length >>

\* loopNextPacketSet(size=2, repeats=3, delaySec=0, delayNsec=1000000), then
\* two packets 50 us apart
RepeatThrice == << Loop(2, 3, 0, 1000000), Pkt(0, 0, 1), Pkt(0, 50000, 1) >>

\* three packets stamped 0, 100000 and 300000 ns, no repeat group
ThreeStamps == << Pkt(0, 0, 1), Pkt(0, 100000, 1), Pkt(0, 300000, 1) >>

Scripts ==
    { << >>,
      RepeatThrice,
      ThreeStamps,
      << Pkt(0, 0, 1), Pkt(0, 100000, 1) >>,
      << Loop(2, 2, 0, 5999), Pkt(0, 0, 3), Pkt(0, 100000, 3) >>,
      << Loop(1, 2, 0, 5999), Pkt(0, 0, 1), Pkt(0, 100000, 1) >>,
      << Loop(1, 0, 0, 5999), Pkt(0, 0, 1) >>,
      << Loop(2, 2, 0, 5999) >> }

\* (loop, returnIndex, delayUsec) given to setPacketListLoopMode
LoopModes == { << FALSE, 0, 0 >>, << TRUE, 0, 3 >>, << TRUE, 1, 0 >> }

RECURSIVE RunScript(_, _)
RunScript(b, script) ==
    IF script = << >> THEN b
    ELSE LET c == Head(script) IN
         RunScript(IF c[1] = "loop"
                   THEN loopNextPacketSet(b, c[2], c[3], c[4], c[5])
                   ELSE appendToPacketList(b, c[2], c[3], c[4]),
                   Tail(script))

\* the construction members after clearPacketList(), the script's calls and
\* setPacketListLoopMode()
Built(script, mode) ==
    setPacketListLoopMode(
        RunScript(clearPacketList([ list |-> << >>, cur |-> Indeterminate,
                                    rstart |-> Indeterminate, rsize |-> Indeterminate,
                                    pcount |-> Indeterminate, retq |-> -1, ldelay |-> 0 ]),
                  script),
        mode[1], mode[2], mode[3])

Init ==
    /\ \E script \in Scripts, mode \in LoopModes :
          LET b == Built(script, mode) IN
          /\ packetSequenceList_ = b.list
          /\ currentPacketSequence_ = b.cur
          /\ repeatSequenceStart_ = b.rstart
          /\ repeatSize_ = b.rsize
          /\ packetCount_ = b.pcount
          /\ returnToQIdx_ = b.retq
          /\ loopDelay_ = b.ldelay
    /\ fastPath \in BOOLEAN
    /\ state_ = kNotStarted
    /\ stop_ = FALSE
    /\ run = NoFrame
    /\ ctl = "idle"
    /\ privStats = NoStats
    /\ portStats = NoStats
    /\ usingInternalStats_ = TRUE
    /\ ticks = 0
    /\ sendErrors = 0
    /\ trace = << >>
    /\ looped = FALSE
    /\ okPkts = 0
    /\ okBytes = 0
    /\ cfgDelay = 0
    /\ closedGroups = {}
    /\ PcapPort(TRUE, TRUE, TRUE)
    /\ OpenHandle(TRUE)

Next == Worker \/ Control

Spec == Init /\ [][Next]_vars

SpecFair ==
    /\ Spec
    /\ WF_vars(Worker)
    /\ WF_vars(StartReturn) /\ WF_vars(StopSet) /\ WF_vars(StopReturn)

(***************************************************************************)
(* What a replay is expected to send.                                      *)
(***************************************************************************)
\* the packets of sequence s in buffer order, as (sequence, packet) pairs
SeqSends(list, s) == [ p \in 1 .. Len(At(list, s).pkts) |-> << s, p - 1 >> ]

RECURSIVE GroupSends(_, _, _)
\* the packets of sequences s, s+1, ..., s+n-1
GroupSends(list, s, n) ==
    IF n <= 0 \/ ~InList(list, s) THEN << >>
    ELSE SeqSends(list, s) \o GroupSends(list, s + 1, n - 1)

RECURSIVE Times(_, _)
Times(sq, n) == IF n <= 0 THEN << >> ELSE sq \o Times(sq, n - 1)

RECURSIVE Expand(_, _)
\* the sends of a pass that begins at index s: every group, repeatCount_
\* times, then the rest of the list after the group
Expand(list, s) ==
    IF ~InList(list, s) THEN << >>
    ELSE Times(GroupSends(list, s, At(list, s).repeatSize_), At(list, s).repeatCount_)
           \o Expand(list, s + At(list, s).repeatSize_)

IsPrefix(a, b) == Len(a) <= Len(b) /\ SubSeq(b, 1, Len(a)) = a

IsPkt(ev) == ev.e = "pkt"
IsAbort(ev) == ev.e = "abort"
IsFailure(ev) == ev.e = "batchfail" \/ (ev.e = "pkt" /\ ~ev.ok)
IsLoopWait(ev) == ev.e = "wait" /\ ev.at = "loop"

\* the packets handed to the handle in this pass, as (sequence, packet) pairs
SendsOf(tr) ==
    LET ps == SelectSeq(tr, IsPkt) IN [ n \in 1 .. Len(ps) |-> << ps[n].s, ps[n].p >> ]

\* the replay left through ret < 0 (a stop request or a failed batch)
CutShort == SelectSeq(trace, IsAbort) # << >>

\* where the current pass began
PassStart == IF looped THEN returnToQIdx_ ELSE 0

(***************************************************************************)
(* C1.  Repeat expansion and ordering: without outer-loop mode the packets *)
(* sent are, in order, a prefix of the list's repeat-group expansion       *)
(* (group at index i of size k and count r: sequences i..i+k-1, r times,   *)
(* then on from i+k, each sequence in buffer order), and a replay that was *)
(* not cut short has sent all of it when the worker is Finished.           *)
(***************************************************************************)
RepeatExpansionOrder ==
    returnToQIdx_ < 0 =>
        /\ IsPrefix(SendsOf(trace), Expand(packetSequenceList_, 0))
        /\ (state_ = kFinished /\ ~CutShort)
              => SendsOf(trace) = Expand(packetSequenceList_, 0)

\* a group split over two sequences was replayed twice, to the end
RepeatExpansionWitness ==
    /\ returnToQIdx_ < 0
    /\ state_ = kFinished
    /\ ~CutShort
    /\ Len(packetSequenceList_) = 2
    /\ packetSequenceList_[1].repeatSize_ = 2
    /\ packetSequenceList_[1].repeatCount_ = 2
    /\ SendsOf(trace) = << <<0, 0>>, <<1, 0>>, <<0, 0>>, <<1, 0>> >>

(***************************************************************************)
(* C3.  Stop terminates the transmitter: once stop() has found the state   *)
(* Running, the worker eventually sets Finished and stop() returns.        *)
(***************************************************************************)
StopTerminates ==
    (ctl = "stopSet" /\ run.pc # "fault")
        ~> ((ctl = "idle" /\ state_ = kFinished) \/ run.pc = "fault")

(***************************************************************************)
(* C4.  Transmit counters count successful sends only: txPkts and txBytes  *)
(* of the object stats_ points to equal the count and the bytes of the     *)
(* sends that succeeded on the handle.                                     *)
(***************************************************************************)
TxCountsSuccessfulSends ==
    /\ TxStats.txPkts = okPkts
    /\ TxStats.txBytes = okBytes

(***************************************************************************)
(* C5.  Send error aborts the replay: after a send has failed, no packet   *)
(* is handed to the handle any more.                                       *)
(***************************************************************************)
SendErrorAborts ==
    \A a, b \in 1 .. Len(trace) :
        (a < b /\ IsFailure(trace[a])) => ~IsPkt(trace[b])

(***************************************************************************)
(* C6.  Outer loop.  As claimed: with outer-loop mode on a non-empty list  *)
(* the worker is Finished only after a stop request.                       *)
(***************************************************************************)
OuterLoopEndsOnlyOnStop ==
    (returnToQIdx_ >= 0 /\ packetSequenceList_ # << >> /\ state_ = kFinished)
        => \E n \in 1 .. Len(trace) : IsAbort(trace[n]) /\ trace[n].ret = -2

(***************************************************************************)
(* C6, amended.  With outer-loop mode on a non-empty list: every pass      *)
(* sends a prefix of the expansion from where it began (index 0 first,     *)
(* returnToQIdx_ afterwards); the jump back happens only when the pass has *)
(* sent all of it, and observes loopDelay_ plus the carried overhead once  *)
(* (a wait when that is positive); and the worker is Finished only through *)
(* the exit on ret < 0, that is after a stop request or a failed send.     *)
(***************************************************************************)
OuterLoopStep ==
    (returnToQIdx_ >= 0 /\ packetSequenceList_ # << >>) =>
        /\ IsPrefix(SendsOf(trace), Expand(packetSequenceList_, PassStart))
        /\ Len(SelectSeq(trace, IsLoopWait)) <= 1
        /\ state_' = kFinished => CutShort
        /\ (run.pc = "end" /\ run'.pc # "end") =>
              /\ SendsOf(trace) = Expand(packetSequenceList_, PassStart)
              /\ run'.pc = "restart" /\ run'.i = returnToQIdx_ /\ looped'
              /\ LET usecs == loopDelay_ + run.overHead IN
                 trace' = IF usecs > 0
                          THEN << [ e |-> "wait", at |-> "loop", us |-> usecs ] >>
                          ELSE << >>

OuterLoop == [][OuterLoopStep]_vars

\* a second pass from returnToQIdx_ = 1 is under way after the loop delay
OuterLoopWitness ==
    /\ returnToQIdx_ = 1
    /\ looped
    /\ Len(trace) >= 1
    /\ SendsOf(trace) = << <<1, 0>> >>

(***************************************************************************)
(* C7.  Transmitter state transitions.  As claimed: Finished is never      *)
(* entered directly from NotStarted.                                       *)
(***************************************************************************)
NeverFinishedFromNotStarted ==
    [][~(state_ = kNotStarted /\ state_' = kFinished)]_vars

(***************************************************************************)
(* C7, amended.  The state moves NotStarted -> Running -> Finished, and    *)
(* back to NotStarted only by start(); NotStarted -> Finished happens only *)
(* for the empty list; start() returns only once the state has left        *)
(* NotStarted.                                                             *)
(***************************************************************************)
StateTransitionStep ==
    /\ (state_ = kNotStarted /\ state_' = kFinished) => packetSequenceList_ = << >>
    /\ state_ = kNotStarted => state_' \in { kNotStarted, kRunning, kFinished }
    /\ state_ = kRunning => state_' \in { kRunning, kFinished }
    /\ (state_ = kFinished /\ state_' # kFinished)
          => (state_' = kNotStarted /\ ctl = "idle" /\ ctl' = "starting")
    /\ (ctl = "starting" /\ ctl' = "idle") => state_ \in { kRunning, kFinished }

StateTransitions == [][StateTransitionStep]_vars

\* start() has returned with the worker Running on a non-empty list
StateTransitionsWitness ==
    /\ ctl = "idle"
    /\ state_ = kRunning
    /\ packetSequenceList_ # << >>
    /\ trace # << >>

(***************************************************************************)
(* Callers that do not keep to the contract: the construction calls are    *)
(* made whenever the code lets them through, also under a running worker.  *)
(***************************************************************************)
AnyCallerBuild ==
    /\ state_ # kFinished
    /\ \/ ClearPacketList
       \/ LoopNextPacketSet(1, 2, 0, 5999)
       \/ \E ts \in Stamps :
             /\ InTimeOrder(packetSequenceList_, ts[1], ts[2])
             /\ AppendToPacketList(ts[1], ts[2], 3)

InitAnyCaller ==
    /\ Init
    /\ returnToQIdx_ < 0
    /\ Len(packetSequenceList_) <= 1

\* one start(), and construction calls at any time before and during the run
AnyCallerNext ==
    \/ Worker
    \/ state_ = kNotStarted /\ Start
    \/ StartReturn
    \/ AnyCallerBuild

SpecAnyCaller == InitAnyCaller /\ [][AnyCallerNext]_vars

(***************************************************************************)
(* C8.  Sequence list is frozen while running: no step taken while the     *)
(* transmitter state is Running changes the sequence list.                 *)
(***************************************************************************)
ListFrozenWhileRunning ==
    [][state_ = kRunning => packetSequenceList_' = packetSequenceList_]_vars

(***************************************************************************)
(* C2.  Post-group delay placement: once a repeat group is complete, the   *)
(* last sequence of the group carries the configured repeat delay, and the *)
(* sequences of the group before it carry the gap to the next sequence's   *)
(* first packet, whether or not the group was split over sequences.        *)
(***************************************************************************)
InterSeqGap(list, m) ==
    TsDiff(At(list, m + 1).pkts[1], At(list, m).pkts[Len(At(list, m).pkts)])

PostGroupDelayPlacement ==
    \A g \in closedGroups :
        /\ At(packetSequenceList_, g.last).usecDelay_ = g.delay
        /\ \A m \in g.start .. g.last - 1 :
              At(packetSequenceList_, m).usecDelay_ = InterSeqGap(packetSequenceList_, m)

(***************************************************************************)
(* The Port: PcapPort with its monitors, capturer and emulation            *)
(* transceiver next to the transmitter.  The calls on a port come from one *)
(* controlling thread (ctl).                                               *)
(***************************************************************************)
\* hdr->len of the packets a monitor reads
MonitorLens == {1}

\* a pcap_close(h) made by `by`
Closed(by, h) == [ op |-> "close", by |-> by, h |-> h ]

\* setHandle leaving usingInternalHandle_ as it was
SetHandleKeepsOwnership(handle) ==
    /\ handleLog' = IF usingInternalHandle_
                    THEN Append(handleLog, Closed("transmitter", handle_))
                    ELSE handleLog
    /\ handle_' = handle
    /\ UNCHANGED usingInternalHandle_

\* PortTransmitter::setHandle(handle)
setHandle(handle) ==
    /\ handleLog' = IF usingInternalHandle_
                    THEN Append(handleLog, Closed("transmitter", handle_))
                    ELSE handleLog
    /\ handle_' = handle
    /\ usingInternalHandle_' = FALSE

\* init() handing the Port's stats to the transmitter whatever the Tx monitor is
InitAlwaysExternalStats ==
    /\ portPc = "constructed"
    /\ ctl = "idle"
    /\ usingInternalStats_' = FALSE
    /\ setHandle(kDirectionRx)
    /\ monitor' = [ d \in Directions |-> [ monitor[d] EXCEPT !.pc = "test" ] ]
    /\ portPc' = "inited"
    /\ UNCHANGED << buildVars, buildObs, xmitVars, envVars, privStats, portStats,
                    obsVars, capturer, emulXcvr, transmitterDeleted >>

\* PcapPort::init(): useExternalStats(&stats_) when the Tx monitor is not
\* directional, setHandle(monitorRx_->handle()), and both monitors started
init ==
    /\ portPc = "constructed"
    /\ ctl = "idle"
    /\ usingInternalStats_' = IF ~monitor[kDirectionTx].isDirectional_
                              THEN FALSE ELSE usingInternalStats_
    /\ setHandle(kDirectionRx)
    /\ monitor' = [ d \in Directions |-> [ monitor[d] EXCEPT !.pc = "test" ] ]
    /\ portPc' = "inited"
    /\ UNCHANGED << buildVars, buildObs, xmitVars, envVars, privStats, portStats,
                    obsVars, capturer, emulXcvr, transmitterDeleted >>

\* PortMonitor::run(), line 291: while (!stop_)
MonitorTest(d) ==
    /\ monitor[d].pc = "test"
    /\ monitor' = [ monitor EXCEPT ![d].pc = IF monitor[d].stop_ THEN "none" ELSE "read" ]
    /\ UNCHANGED << handleVars, buildVars, buildObs, replayVars, portPc, capturer, emulXcvr,
                    transmitterDeleted >>

\* a Tx monitor counting whether or not it is directional
MonitorCountAnyDirection(d, len) ==
    IF d = kDirectionRx
    THEN [ portStats EXCEPT !.rxPkts = (@ + 1) % CounterMod,
                            !.rxBytes = (@ + len) % CounterMod ]
    ELSE [ portStats EXCEPT !.txPkts = (@ + 1) % CounterMod,
                            !.txBytes = (@ + len) % CounterMod ]

\* the counters a monitor adds a packet of hdr->len = len to
MonitorCount(d, len) ==
    IF d = kDirectionRx
    THEN [ portStats EXCEPT !.rxPkts = (@ + 1) % CounterMod,
                            !.rxBytes = (@ + len) % CounterMod ]
    ELSE IF monitor[d].isDirectional_
    THEN [ portStats EXCEPT !.txPkts = (@ + 1) % CounterMod,
                            !.txBytes = (@ + len) % CounterMod ]
    ELSE portStats

\* what pcap_next_ex() returns to a monitor: a packet (1), a timeout (0), a
\* read error (-1), or -2 after pcap_breakloop()
MonitorReturns == { 1, 0, -1, -2 }

\* a monitor leaving its loop when a read fails
MonitorReturnErrorExits(d, ret, len) ==
    /\ monitor[d].pc = "read"
    /\ ret \in MonitorReturns
    /\ portStats' = IF ret = 1 THEN MonitorCount(d, len) ELSE portStats
    /\ monitor' = [ monitor EXCEPT ![d].pc = IF ret = -1 THEN "none" ELSE "test" ]
    /\ UNCHANGED << handleVars, buildVars, buildObs, xmitVars, envVars, privStats,
                    usingInternalStats_, obsVars, portPc, capturer, emulXcvr,
                    transmitterDeleted >>

\* PortMonitor::run(), lines 297-335: pcap_next_ex() returns ret, a packet of
\* hdr->len = len when ret is 1 and nothing to count otherwise; then back to
\* the loop's test
MonitorReturn(d, ret, len) ==
    /\ monitor[d].pc = "read"
    /\ ret \in MonitorReturns
    /\ portStats' = IF ret = 1 THEN MonitorCount(d, len) ELSE portStats
    /\ monitor' = [ monitor EXCEPT ![d].pc = "test" ]
    /\ UNCHANGED << handleVars, buildVars, buildObs, xmitVars, envVars, privStats,
                    usingInternalStats_, obsVars, portPc, capturer, emulXcvr,
                    transmitterDeleted >>

MonitorRead(d) == \E ret \in MonitorReturns, len \in MonitorLens : MonitorReturn(d, ret, len)

Monitor == \E d \in Directions : MonitorTest(d) \/ MonitorRead(d)

\* the transmitter's list is built between init() and startTransmit()
PortBuild ==
    /\ portPc = "inited"
    /\ ctl = "idle"
    /\ ~isRunning
    /\ \/ ClearPacketList
       \/ /\ TotalPkts(packetSequenceList_) = 0
          /\ AppendToPacketList(0, 0, 1)

\* the transmitter is started once
PortStartTransmit == portPc = "inited" /\ state_ = kNotStarted /\ Start

\* PortCapturer::start(filter), lines 906-909: already running, warn and return
CapturerStartIgnored ==
    /\ portPc = "inited"
    /\ ctl = "idle"
    /\ capturer.state_ = kRunning
    /\ UNCHANGED vars

\* PortCapturer::start(filter), lines 910-913
CapturerStart ==
    /\ portPc = "inited"
    /\ ctl = "idle"
    /\ capturer.state_ # kRunning
    /\ capturer.pc = "none"
    /\ capturer' = [ capturer EXCEPT !.state_ = kNotStarted, !.pc = "entry",
                                     !.outcome = "none" ]
    /\ ctl' = "captureStarting"
    /\ UNCHANGED << handleVars, buildVars, buildObs, state_, stop_, run, envVars, statVars, obsVars,
                    portPc, monitor, emulXcvr, transmitterDeleted >>

\* start(), lines 915-916: poll until state_ is not kNotStarted
CapturerStartReturn ==
    /\ ctl = "captureStarting"
    /\ capturer.state_ # kNotStarted
    /\ ctl' = "idle"
    /\ UNCHANGED << handleVars, buildVars, buildObs, state_, stop_, run, envVars, statVars, obsVars,
                    portVars >>

\* how PortCapturer::run() gets to its loop, or does not: the capture file is
\* not open (line 815), pcap_open_live fails (825-840), pcap_compile fails
\* (843), pcap_setfilter fails (851), or all succeed
CaptureOutcomes == { "nofile", "noopen", "compile", "setfilter", "ok" }
FilterFailures == { "compile", "setfilter" }

\* the capturer after run() has taken the path o up to its loop or to _exit:
\* pcap_dump_open() starts the capture file afresh
CapturerEntered(c, o) ==
    CASE o \in { "nofile", "noopen" } ->
           [ c EXCEPT !.outcome = o, !.state_ = kFinished, !.pc = "none",
                      !.handle_ = IF o = "noopen" THEN "NULL" ELSE @ ]
      [] o \in FilterFailures ->
           [ c EXCEPT !.outcome = o, !.state_ = kFinished, !.pc = "none",
                      !.handle_ = LiveHandle ]
      [] OTHER ->
           [ c EXCEPT !.outcome = o, !.state_ = kRunning, !.pc = "loop",
                      !.handle_ = LiveHandle, !.dumped = 0 ]

\* run() going on to capture without the filter when it fails
CapturerRunSkipFilter(o) ==
    /\ capturer.pc = "entry"
    /\ o \in CaptureOutcomes
    /\ (o = "nofile") <=> ~capturer.capFileOpen
    /\ capturer' = IF o \in FilterFailures
                   THEN [ CapturerEntered(capturer, "ok") EXCEPT !.outcome = o ]
                   ELSE CapturerEntered(capturer, o)
    /\ UNCHANGED << handleVars, buildVars, buildObs, replayVars, portPc, monitor, emulXcvr,
                    transmitterDeleted >>

\* PortCapturer::run(), lines 815-867: the file, the device or the filter
\* fails (_exit: state_ = kFinished), or the capture is set up and
\* state_ = kRunning
CapturerRun(o) ==
    /\ capturer.pc = "entry"
    /\ o \in CaptureOutcomes
    /\ (o = "nofile") <=> ~capturer.capFileOpen
    /\ capturer' = CapturerEntered(capturer, o)
    /\ UNCHANGED << handleVars, buildVars, buildObs, replayVars, portPc, monitor, emulXcvr,
                    transmitterDeleted >>

\* run() with the filter taken to be good: the device opens or it does not
SetupOutcomes == { "noopen", "ok" }
CapturerRunEntry == \E o \in SetupOutcomes : CapturerRun(o)

\* run(), lines 872-877: pcap_loop() returns 0 after handing the n packets it
\* read to pcap_dump
CapturerLoopRead ==
    /\ capturer.pc = "loop"
    /\ \E n \in 0 .. MaxDumped - capturer.dumped :
          capturer' = [ capturer EXCEPT !.dumped = @ + n ]
    /\ UNCHANGED << handleVars, buildVars, buildObs, replayVars, portPc, monitor, emulXcvr,
                    transmitterDeleted >>

\* PortCapturer::run(), lines 878-900: pcap_loop() returning -1, or -2 after
\* pcap_breakloop(); then the handles are closed and state_ = kFinished
CapturerLoopEnd ==
    /\ capturer.pc = "loop"
    /\ \E ret \in { -1, -2 } : ret = -2 => capturer.stop_
    /\ capturer' = [ capturer EXCEPT !.stop_ = FALSE, !.state_ = kFinished, !.pc = "none",
                                     !.handle_ = "NULL" ]
    /\ UNCHANGED << handleVars, buildVars, buildObs, replayVars, portPc, monitor, emulXcvr,
                    transmitterDeleted >>

\* CapturerStop testing stop_ in place of state_
CapturerStopOnFlag ==
    /\ portPc = "inited"
    /\ ctl = "idle"
    /\ ~capturer.stop_
    /\ capturer' = [ capturer EXCEPT !.stop_ = TRUE ]
    /\ ctl' = "captureStopping"
    /\ UNCHANGED << handleVars, buildVars, buildObs, state_, stop_, run, envVars, statVars, obsVars,
                    portPc, monitor, emulXcvr, transmitterDeleted >>

\* PortCapturer::stop(), lines 921-923: running, so stop_ = true and
\* pcap_breakloop()
CapturerStop ==
    /\ portPc = "inited"
    /\ ctl = "idle"
    /\ capturer.state_ = kRunning
    /\ capturer' = [ capturer EXCEPT !.stop_ = TRUE ]
    /\ ctl' = "captureStopping"
    /\ UNCHANGED << handleVars, buildVars, buildObs, state_, stop_, run, envVars, statVars, obsVars,
                    portPc, monitor, emulXcvr, transmitterDeleted >>

\* stop(), lines 924-927: poll until state_ is not kRunning
CapturerStopReturn ==
    /\ ctl = "captureStopping"
    /\ capturer.state_ # kRunning
    /\ ctl' = "idle"
    /\ UNCHANGED << handleVars, buildVars, buildObs, state_, stop_, run, envVars, statVars, obsVars,
                    portVars >>

\* stop(), lines 929-933: not running, warn and return
CapturerStopIgnored ==
    /\ portPc = "inited"
    /\ ctl = "idle"
    /\ capturer.state_ # kRunning
    /\ UNCHANGED vars

Capturer ==
    \/ CapturerStartIgnored \/ CapturerStart \/ CapturerStartReturn
    \/ CapturerRunEntry \/ CapturerLoopEnd
    \/ CapturerStop \/ CapturerStopReturn \/ CapturerStopIgnored

\* EmulationTransceiver::start(), lines 1126-1129: already running, warn and
\* return
EmulStartIgnored ==
    /\ portPc = "inited"
    /\ ctl = "idle"
    /\ emulXcvr.state_ = kRunning
    /\ UNCHANGED vars

\* EmulationTransceiver::start(), lines 1131-1132
EmulStart ==
    /\ portPc = "inited"
    /\ ctl = "idle"
    /\ emulXcvr.state_ # kRunning
    /\ emulXcvr.pc = "none"
    /\ emulXcvr' = [ emulXcvr EXCEPT !.state_ = kNotStarted, !.pc = "entry",
                                     !.outcome = "none" ]
    /\ ctl' = "emulStarting"
    /\ UNCHANGED << handleVars, buildVars, buildObs, state_, stop_, run, envVars, statVars, obsVars,
                    portPc, monitor, capturer, transmitterDeleted >>

\* start(), lines 1134-1135: poll until state_ is not kNotStarted
EmulStartReturn ==
    /\ ctl = "emulStarting"
    /\ emulXcvr.state_ # kNotStarted
    /\ ctl' = "idle"
    /\ UNCHANGED << handleVars, buildVars, buildObs, state_, stop_, run, envVars, statVars, obsVars,
                    portVars >>

\* how EmulationTransceiver::run() gets past its set-up: pcap_open_live fails
\* (lines 1024-1046), pcap_compile fails (1048), pcap_setfilter fails (1055),
\* or all succeed
EmulOutcomes == { "noopen", "compile", "setfilter", "ok" }

\* the transceiver after run() has taken the path o to its loop or to _exit
EmulEntered(x, o) ==
    IF o = "noopen"
    THEN [ x EXCEPT !.outcome = o, !.state_ = kFinished, !.pc = "none", !.handle_ = "NULL" ]
    ELSE [ x EXCEPT !.outcome = o, !.state_ = kRunning, !.pc = "loop",
                    !.handle_ = LiveHandle, !.received = << >>, !.forwarded = << >> ]

\* run() giving up when the filter cannot be compiled or applied
EmulRunFilterFatal(o) ==
    /\ emulXcvr.pc = "entry"
    /\ o \in EmulOutcomes
    /\ emulXcvr' = IF o \in FilterFailures
                   THEN [ EmulEntered(emulXcvr, "noopen") EXCEPT
                            !.outcome = o, !.handle_ = LiveHandle ]
                   ELSE EmulEntered(emulXcvr, o)
    /\ UNCHANGED << handleVars, buildVars, buildObs, replayVars, portPc, monitor, capturer,
                    transmitterDeleted >>

\* EmulationTransceiver::run(), lines 1013-1068: the device does not open
\* (_exit), or it does and, filter or no filter, state_ = kRunning
EmulRun(o) ==
    /\ emulXcvr.pc = "entry"
    /\ o \in EmulOutcomes
    /\ emulXcvr' = EmulEntered(emulXcvr, o)
    /\ UNCHANGED << handleVars, buildVars, buildObs, replayVars, portPc, monitor, capturer,
                    transmitterDeleted >>

\* run() with the filter taken to be good
EmulRunEntry == \E o \in SetupOutcomes : EmulRun(o)

\* what pcap_next_ex() returns on a live handle that nobody breaks: a packet
\* (1), a timeout (0) or a read error (-1)
ReadReturns == { 1, 0, -1 }

\* run(), lines 1075-1107: one pcap_next_ex(); the packet it returned, the
\* next of the stream, goes to deviceManager_->receivePacket
EmulReceive(x, ret) ==
    IF ret = 1
    THEN [ x EXCEPT !.received = Append(@, Len(@) + 1),
                    !.forwarded = Append(@, Len(x.received) + 1) ]
    ELSE x

\* run(), lines 1070-1121: one iteration of the loop, whose read returns
\* ret; seeing stop_ after it (line 1109) the worker closes the handle and
\* state_ = kFinished
EmulIterate(ret) ==
    /\ emulXcvr.pc = "loop"
    /\ ret \in ReadReturns
    /\ ret = 1 => Len(emulXcvr.received) < MaxRx
    /\ emulXcvr' = IF emulXcvr.stop_
                   THEN [ EmulReceive(emulXcvr, ret) EXCEPT
                            !.stop_ = FALSE, !.state_ = kFinished, !.pc = "none",
                            !.handle_ = "NULL" ]
                   ELSE EmulReceive(emulXcvr, ret)
    /\ UNCHANGED << handleVars, buildVars, buildObs, replayVars, portPc, monitor, capturer,
                    transmitterDeleted >>

\* the iteration that sees stop_, its read timing out
EmulLoopEnd == emulXcvr.stop_ /\ EmulIterate(0)

\* EmulationTransceiver::stop(), lines 1140-1141: running, so stop_ = true
EmulStop ==
    /\ portPc = "inited"
    /\ ctl = "idle"
    /\ emulXcvr.state_ = kRunning
    /\ emulXcvr' = [ emulXcvr EXCEPT !.stop_ = TRUE ]
    /\ ctl' = "emulStopping"
    /\ UNCHANGED << handleVars, buildVars, buildObs, state_, stop_, run, envVars, statVars, obsVars,
                    portPc, monitor, capturer, transmitterDeleted >>

\* stop(), lines 1142-1143: poll until state_ is not kRunning
EmulStopReturn ==
    /\ ctl = "emulStopping"
    /\ emulXcvr.state_ # kRunning
    /\ ctl' = "idle"
    /\ UNCHANGED << handleVars, buildVars, buildObs, state_, stop_, run, envVars, statVars, obsVars,
                    portVars >>

\* stop(), lines 1145-1148: not running, warn and return
EmulStopIgnored ==
    /\ portPc = "inited"
    /\ ctl = "idle"
    /\ emulXcvr.state_ # kRunning
    /\ UNCHANGED vars

Emul ==
    \/ EmulStartIgnored \/ EmulStart \/ EmulStartReturn
    \/ EmulRunEntry \/ EmulLoopEnd
    \/ EmulStop \/ EmulStopReturn \/ EmulStopIgnored

\* PcapPort::~PcapPort(), lines 131-132: monitorRx_->stop()
DtorStopRx ==
    /\ portPc \in { "constructed", "inited" }
    /\ ctl = "idle"
    /\ monitor' = [ monitor EXCEPT ![kDirectionRx].stop_ = TRUE ]
    /\ portPc' = "dtorStopTx"
    /\ UNCHANGED << handleVars, buildVars, buildObs, replayVars, capturer, emulXcvr,
                    transmitterDeleted >>

\* lines 133-134: monitorTx_->stop()
DtorStopTx ==
    /\ portPc = "dtorStopTx"
    /\ monitor' = [ monitor EXCEPT ![kDirectionTx].stop_ = TRUE ]
    /\ portPc' = "dtorEmul"
    /\ UNCHANGED << handleVars, buildVars, buildObs, replayVars, capturer, emulXcvr,
                    transmitterDeleted >>

\* line 136, delete emulXcvr_: ~EmulationTransceiver() calls stop(), which
\* sets stop_ when the transceiver is running and returns at once otherwise
DtorEmulStop ==
    /\ portPc = "dtorEmul"
    /\ IF emulXcvr.state_ = kRunning
       THEN /\ emulXcvr' = [ emulXcvr EXCEPT !.stop_ = TRUE ]
            /\ portPc' = "dtorEmulWait"
       ELSE /\ emulXcvr' = [ emulXcvr EXCEPT !.deleted = TRUE ]
            /\ portPc' = "dtorCapturer"
    /\ UNCHANGED << handleVars, buildVars, buildObs, replayVars, monitor, capturer,
                    transmitterDeleted >>

\* stop() called by ~EmulationTransceiver() polls until state_ is not kRunning
DtorEmulWait ==
    /\ portPc = "dtorEmulWait"
    /\ emulXcvr.state_ # kRunning
    /\ emulXcvr' = [ emulXcvr EXCEPT !.deleted = TRUE ]
    /\ portPc' = "dtorCapturer"
    /\ UNCHANGED << handleVars, buildVars, buildObs, replayVars, monitor, capturer,
                    transmitterDeleted >>

\* line 137, delete capturer_: ~PortCapturer() closes the capture file
DtorCapturer ==
    /\ portPc = "dtorCapturer"
    /\ capturer' = [ capturer EXCEPT !.deleted = TRUE ]
    /\ portPc' = "dtorTransmitter"
    /\ UNCHANGED << handleVars, buildVars, buildObs, replayVars, monitor, emulXcvr,
                    transmitterDeleted >>

\* line 138, delete transmitter_: ~PortTransmitter() deletes the stats and
\* closes the handle when they are its own
DtorTransmitter ==
    /\ portPc = "dtorTransmitter"
    /\ transmitterDeleted' = TRUE
    /\ handleLog' = IF usingInternalHandle_
                    THEN Append(handleLog, Closed("transmitter", handle_))
                    ELSE handleLog
    /\ portPc' = "dtorWaitRx"
    /\ UNCHANGED << handle_, usingInternalHandle_, buildVars, buildObs, replayVars, monitor, capturer, emulXcvr >>

\* lines 140-142: monitorRx_->wait(); delete monitorRx_, which closes its handle
DtorWaitRx ==
    /\ portPc = "dtorWaitRx"
    /\ monitor[kDirectionRx].pc = "none"
    /\ monitor' = [ monitor EXCEPT ![kDirectionRx].deleted = TRUE ]
    /\ handleLog' = Append(handleLog, Closed(kDirectionRx, kDirectionRx))
    /\ portPc' = "dtorWaitTx"
    /\ UNCHANGED << handle_, usingInternalHandle_, buildVars, buildObs, replayVars, capturer, emulXcvr,
                    transmitterDeleted >>

\* lines 144-146: monitorTx_->wait(); delete monitorTx_
DtorWaitTx ==
    /\ portPc = "dtorWaitTx"
    /\ monitor[kDirectionTx].pc = "none"
    /\ monitor' = [ monitor EXCEPT ![kDirectionTx].deleted = TRUE ]
    /\ handleLog' = Append(handleLog, Closed(kDirectionTx, kDirectionTx))
    /\ portPc' = "destroyed"
    /\ UNCHANGED << handle_, usingInternalHandle_, buildVars, buildObs, replayVars, capturer, emulXcvr,
                    transmitterDeleted >>

Dtor ==
    \/ DtorStopRx \/ DtorStopTx \/ DtorEmulStop \/ DtorEmulWait
    \/ DtorCapturer \/ DtorTransmitter \/ DtorWaitRx \/ DtorWaitTx

\* a worker still executing run() on a deleted object, or sending on a closed
\* handle, is undefined: it goes on as if nothing happened (its own actions),
\* or it ends in an invalid access (these)
TransmitterUseAfterDelete ==
    /\ transmitterDeleted \/ monitor[kDirectionRx].deleted
    /\ run.pc \notin { "none", "fault" }
    /\ run' = [ run EXCEPT !.pc = "fault" ]
    /\ UNCHANGED << handleVars, portVars, buildVars, buildObs, state_, stop_, ctl, envVars, statVars, obsVars >>

CapturerUseAfterDelete ==
    /\ capturer.deleted
    /\ capturer.pc \notin { "none", "fault" }
    /\ capturer' = [ capturer EXCEPT !.pc = "fault" ]
    /\ UNCHANGED << handleVars, buildVars, buildObs, replayVars, portPc, monitor, emulXcvr,
                    transmitterDeleted >>

\* the capturer and the emulation transceiver are started once
PortStartCapture == capturer.state_ = kNotStarted /\ CapturerStart
PortStartEmulation == emulXcvr.state_ = kNotStarted /\ EmulStart

InitPort ==
    /\ InitTransmitter
    /\ fastPath \in BOOLEAN
    \* Q_OS_WIN32, lines 249-254: the direction is never set
    /\ \E rx, tx \in BOOLEAN :
          /\ fastPath => ~rx /\ ~tx
          /\ PcapPort(rx, tx, TRUE)
    /\ OpenHandle(TRUE)

PortNext ==
    \/ init
    \/ PortBuild
    \/ PortStartTransmit
    \/ StartReturn
    \/ Worker
    \/ Monitor
    \/ PortStartCapture \/ CapturerStartReturn \/ CapturerRunEntry \/ CapturerLoopEnd
    \/ PortStartEmulation \/ EmulStartReturn \/ EmulRunEntry \/ EmulLoopEnd
    \/ Dtor
    \/ TransmitterUseAfterDelete
    \/ CapturerUseAfterDelete

SpecPort == InitPort /\ [][PortNext]_vars

(***************************************************************************)
(* C9.  Single writer per shared counter: once the Port is initialised, a  *)
(* step that changes rxPkts or rxBytes of the Port's stats is a read of    *)
(* the Rx monitor; a step that changes txPkts or txBytes is a read of the  *)
(* Tx monitor when that monitor is directional, and a send of the          *)
(* transmitter when it is not.                                             *)
(***************************************************************************)
SingleWriterStep ==
    portPc # "constructed" =>
       /\ (portStats'.rxPkts # portStats.rxPkts \/ portStats'.rxBytes # portStats.rxBytes)
             => MonitorRead(kDirectionRx)
       /\ (portStats'.txPkts # portStats.txPkts \/ portStats'.txBytes # portStats.txBytes)
             => IF monitor[kDirectionTx].isDirectional_
                THEN MonitorRead(kDirectionTx)
                ELSE SqSend \/ RunBatch

SingleWriter == [][SingleWriterStep]_vars

\* the Rx monitor and, the Tx monitor not being directional, the transmitter
\* have both counted into the Port's stats
SingleWriterWitness ==
    /\ portPc = "inited"
    /\ ~monitor[kDirectionTx].isDirectional_
    /\ ~usingInternalStats_
    /\ portStats.rxPkts > 0
    /\ portStats.txPkts > 0
    /\ privStats = NoStats

(***************************************************************************)
(* C10.  Port destruction stops every worker: no worker is executing its   *)
(* run() when its object has been deleted, and the transmitter's worker is *)
(* not executing when the Rx monitor, whose handle it sends on, has been   *)
(* deleted.                                                                *)
(***************************************************************************)
DestructionStopsWorkers ==
    /\ \A d \in Directions : monitor[d].deleted => monitor[d].pc = "none"
    /\ emulXcvr.deleted => emulXcvr.pc = "none"
    /\ capturer.deleted => capturer.pc = "none"
    /\ transmitterDeleted => run.pc = "none"
    /\ monitor[kDirectionRx].deleted => run.pc = "none"

(***************************************************************************)
(* The transmitter's handle over the life of a Port: the constructor's     *)
(* pcap_open_live succeeding or failing, init(), further setHandle calls   *)
(* and the destructor.                                                     *)
(***************************************************************************)
\* the handles setHandle is called with: a monitor's, or NULL
SuppliedHandles == Directions \cup { NoHandle }

SetHandle(handle) ==
    /\ portPc \in { "constructed", "inited" }
    /\ ctl = "idle"
    /\ setHandle(handle)
    /\ UNCHANGED << buildVars, buildObs, replayVars, portVars >>

InitHandle ==
    /\ InitTransmitter
    /\ fastPath \in BOOLEAN
    /\ \E rx, tx \in BOOLEAN :
          /\ fastPath => ~rx /\ ~tx
          /\ PcapPort(rx, tx, TRUE)
    /\ \E opened \in BOOLEAN : OpenHandle(opened)

HandleNext ==
    \/ init
    \/ \E handle \in SuppliedHandles : SetHandle(handle)
    \/ Monitor
    \/ DtorStopRx \/ DtorStopTx \/ DtorEmulStop \/ DtorCapturer
    \/ DtorTransmitter \/ DtorWaitRx \/ DtorWaitTx

SpecHandle == InitHandle /\ [][HandleNext]_vars

IsTransmitterClose(ev) == ev.op = "close" /\ ev.by = "transmitter"
TransmitterCloses == SelectSeq(handleLog, IsTransmitterClose)
TransmitterOpened == handleLog # << >> /\ handleLog[1].op = "open"

(***************************************************************************)
(* C11.  Handle ownership: every handle the transmitter has closed is the  *)
(* one it opened itself, and it has closed that one exactly once as soon   *)
(* as a setHandle call or the destructor has run, and not before.          *)
(***************************************************************************)
HandleOwnership ==
    /\ \A n \in 1 .. Len(TransmitterCloses) : TransmitterCloses[n].h = OwnHandle
    /\ Len(TransmitterCloses) =
          IF TransmitterOpened /\ (~usingInternalHandle_ \/ transmitterDeleted)
          THEN 1 ELSE 0

\* the transmitter opened a handle, was given the Rx monitor's and then the Tx
\* monitor's, and has been destroyed
HandleOwnershipWitness ==
    /\ TransmitterOpened
    /\ portPc = "destroyed"
    /\ handle_ = kDirectionTx
    /\ Len(TransmitterCloses) = 1

(***************************************************************************)
(* start() and stop() of the three workers, called in any order by the     *)
(* controlling thread of an initialised Port.                              *)
(***************************************************************************)
ControlNext ==
    \/ init
    \/ PortBuild
    \/ Control
    \/ Worker
    \/ Capturer
    \/ Emul

SpecControl == InitPort /\ [][ControlNext]_vars

(***************************************************************************)
(* C12.  Misuse calls are no-ops: a call of start() launches a worker and  *)
(* waits only when the worker's state is not Running, and a call of stop() *)
(* sets the stop flag and waits only when it is Running; in the other      *)
(* cases the call changes nothing and the controlling thread stays idle.   *)
(* For the transmitter, the capturer and the emulation transceiver.        *)
(***************************************************************************)
MisuseStep ==
    /\ ctl' = "starting" /\ ctl = "idle" => state_ # kRunning
    /\ ctl' = "stopSet" /\ ctl = "idle" => state_ = kRunning
    /\ (run'.pc = "entry" /\ run.pc # "entry")
          => (state_ # kRunning /\ ctl = "idle" /\ ctl' = "starting")
    /\ (stop_' /\ ~stop_) => ctl = "stopSet"
    /\ ctl' = "captureStarting" /\ ctl = "idle" => capturer.state_ # kRunning
    /\ ctl' = "captureStopping" /\ ctl = "idle" => capturer.state_ = kRunning
    /\ (capturer'.pc = "entry" /\ capturer.pc # "entry")
          => (capturer.state_ # kRunning /\ ctl = "idle" /\ ctl' = "captureStarting")
    /\ (capturer'.stop_ /\ ~capturer.stop_)
          => (capturer.state_ = kRunning /\ ctl = "idle" /\ ctl' = "captureStopping")
    /\ ctl' = "emulStarting" /\ ctl = "idle" => emulXcvr.state_ # kRunning
    /\ ctl' = "emulStopping" /\ ctl = "idle" => emulXcvr.state_ = kRunning
    /\ (emulXcvr'.pc = "entry" /\ emulXcvr.pc # "entry")
          => (emulXcvr.state_ # kRunning /\ ctl = "idle" /\ ctl' = "emulStarting")
    /\ (emulXcvr'.stop_ /\ ~emulXcvr.stop_)
          => (emulXcvr.state_ = kRunning /\ ctl = "idle" /\ ctl' = "emulStopping")

MisuseCallsAreNoOps == [][MisuseStep]_vars

\* the controlling thread is idle with the transmitter Running (a start()
\* would be misuse) and the capturer and the transceiver Finished (a stop()
\* would be)
MisuseWitness ==
    /\ ctl = "idle"
    /\ state_ = kRunning
    /\ trace # << >>
    /\ capturer.state_ = kFinished
    /\ emulXcvr.state_ = kFinished

(***************************************************************************)
(* C13.  clearPacketList post-state.  As claimed: after clearPacketList    *)
(* the list is empty, there is no current sequence and packetCount,        *)
(* repeatGroupSize, repeatGroupStart, returnToQueueIndex and loopDelayUsec *)
(* are all zero.                                                           *)
(***************************************************************************)
ClearLeavesAllZero ==
    [][ClearPacketList =>
          /\ packetSequenceList_' = << >>
          /\ currentPacketSequence_' = NULL
          /\ packetCount_' = 0
          /\ repeatSize_' = 0
          /\ repeatSequenceStart_' = 0
          /\ returnToQIdx_' = 0
          /\ loopDelay_' = 0]_vars

(***************************************************************************)
(* C13, amended.  After clearPacketList the list is empty, there is no     *)
(* current sequence, packetCount, repeatGroupSize and loopDelayUsec are    *)
(* zero, and repeatGroupStart and returnToQueueIndex are -1 (no group      *)
(* open, outer loop off).                                                  *)
(***************************************************************************)
ClearPostState ==
    [][ClearPacketList =>
          /\ packetSequenceList_' = << >>
          /\ currentPacketSequence_' = NULL
          /\ packetCount_' = 0
          /\ repeatSize_' = 0
          /\ repeatSequenceStart_' = -1
          /\ returnToQIdx_' = -1
          /\ loopDelay_' = 0]_vars

\* the state clearPacketList leaves; the constructor leaves the group members
\* unset, so only a call of clearPacketList gets here
ClearPostStateWitness ==
    /\ packetSequenceList_ = << >>
    /\ currentPacketSequence_ = NULL
    /\ repeatSequenceStart_ = -1
    /\ packetCount_ = 0
    /\ closedGroups = {}
    /\ cfgDelay = 0

\* the waits of this pass in microseconds, in order
IsWait(ev) == ev.e = "wait"
WaitsOf(tr) ==
    LET ws == SelectSeq(tr, IsWait) IN [ n \in 1 .. Len(ws) |-> ws[n].us ]

(***************************************************************************)
(* C14.  Trailing repeat delay: the list of loopNextPacketSet(2, 3, 0,     *)
(* 1000000) and two packets 50 us apart, replayed packet by packet to the  *)
(* end with no overhead measured and no send failing, has made 6 sends and *)
(* the 5 waits 50, 1000, 50, 1000, 50.                                     *)
(***************************************************************************)
TrailingRepeatDelayDropped ==
    ( /\ packetSequenceList_ = Built(RepeatThrice, << FALSE, 0, 0 >>).list
      /\ returnToQIdx_ < 0
      /\ ~fastPath
      /\ state_ = kFinished
      /\ ~CutShort
      /\ ticks = 0
      /\ sendErrors = 0 )
        => /\ Len(SendsOf(trace)) = 6
           /\ WaitsOf(trace) = << 50, 1000, 50, 1000, 50 >>

(***************************************************************************)
(* C15: for packets appended with non-decreasing timestamps and no repeat  *)
(* group that fit in one sequence, the sequence's usecDuration_ is the     *)
(* last timestamp minus the first in microseconds, and with zero overhead  *)
(* the per-packet path requests no wait before the first packet and a wait *)
(* of ts(n) - ts(n-1) microseconds before packet n, so that the waits sum  *)
(* to usecDuration_ (stamps 0, 100000, 300000 ns: 300, waits 100 and 200). *)
(***************************************************************************)
\* the gaps ts(n) - ts(n-1), n = 2 .. Len(pkts), that are waited (a gap of 0
\* requests no wait)
RECURSIVE PositiveGaps(_)
PositiveGaps(pkts) ==
    IF Len(pkts) < 2 THEN << >>
    ELSE LET g == TsDiff(pkts[2], pkts[1]) IN
         (IF g > 0 THEN << g >> ELSE << >>) \o PositiveGaps(Tail(pkts))

RECURSIVE SumSeq(_)
SumSeq(q) == IF q = << >> THEN 0 ELSE Head(q) + SumSeq(Tail(q))

\* one sequence, outside any repeat group, replayed once
OneSequenceNoGroup ==
    /\ Len(packetSequenceList_) = 1
    /\ packetSequenceList_[1].pkts # << >>
    /\ packetSequenceList_[1].repeatCount_ = 1
    /\ packetSequenceList_[1].repeatSize_ = 1
    /\ returnToQIdx_ < 0

GapsFromTimestamps ==
    OneSequenceNoGroup =>
        LET seq == packetSequenceList_[1] IN
        /\ seq.usecDuration_ = TsDiff(seq.pkts[Len(seq.pkts)], seq.pkts[1])
        /\ ( ~fastPath /\ ticks = 0 /\ sendErrors = 0 /\ state_ = kFinished /\ ~CutShort )
              => /\ WaitsOf(trace) = PositiveGaps(seq.pkts)
                 /\ SumSeq(WaitsOf(trace)) = seq.usecDuration_
                 /\ Len(SendsOf(trace)) = Len(seq.pkts)

GapsFromTimestampsWitness ==
    /\ packetSequenceList_ = Built(ThreeStamps, << FALSE, 0, 0 >>).list
    /\ packetSequenceList_[1].usecDuration_ = 300
    /\ ~fastPath /\ ticks = 0 /\ state_ = kFinished
    /\ WaitsOf(trace) = << 100, 200 >>
    /\ Len(SendsOf(trace)) = 3

(***************************************************************************)
(* The capturer and the emulation transceiver on their own: every way      *)
(* their run() can go, and what their loops read.                          *)
(***************************************************************************)
InitCapture ==
    /\ InitTransmitter
    /\ fastPath = FALSE
    /\ \E opened \in BOOLEAN : PcapPort(TRUE, TRUE, opened)
    /\ OpenHandle(TRUE)

CaptureNext ==
    \/ init
    \/ CapturerStartIgnored \/ CapturerStart \/ CapturerStartReturn
    \/ \E o \in CaptureOutcomes : CapturerRun(o)
    \/ CapturerLoopRead \/ CapturerLoopEnd
    \/ CapturerStop \/ CapturerStopReturn \/ CapturerStopIgnored
    \/ EmulStartIgnored \/ EmulStart \/ EmulStartReturn
    \/ \E o \in EmulOutcomes : EmulRun(o)
    \/ \E ret \in ReadReturns : EmulIterate(ret)
    \/ EmulStop \/ EmulStopReturn \/ EmulStopIgnored

SpecCapture == InitCapture /\ [][CaptureNext]_vars

(***************************************************************************)
(* C16: if compiling or applying the caller's filter fails when the        *)
(* capturer is started, the capturer does not enter Running for that       *)
(* start, dumps no packet to the capture file, ends in state Finished, and *)
(* start() returns with isRunning() false.                                 *)
(***************************************************************************)
CapturerFilterFailureStep ==
    capturer'.outcome \in FilterFailures =>
        /\ capturer'.state_ = kFinished
        /\ capturer'.pc = "none"
        /\ capturer'.dumped = capturer.dumped
        /\ CapturerStartReturn => capturer'.state_ # kRunning

CapturerFilterFailureIsFatal == [][CapturerFilterFailureStep]_vars

\* start() has returned from a start whose filter could not be applied, after
\* an earlier capture that dumped a packet
CapturerFilterFailureWitness ==
    /\ capturer.outcome = "setfilter"
    /\ ctl = "idle"
    /\ capturer.state_ = kFinished
    /\ capturer.dumped = 1

(***************************************************************************)
(* C17: once the transceiver's handle is opened, whether or not the fixed  *)
(* filter compiles and applies, the transceiver enters Running and hands   *)
(* every packet the read returns to the device manager exactly once, in    *)
(* receive order, until stop is requested; a timeout or a read error       *)
(* forwards nothing and does not end the loop.                             *)
(***************************************************************************)
EmulFilterFailureStep ==
    /\ \A o \in EmulOutcomes \ { "noopen" } : EmulRun(o) => emulXcvr'.state_ = kRunning
    /\ emulXcvr'.forwarded = emulXcvr'.received
    /\ \A ret \in { 0, -1 } :
          EmulIterate(ret) =>
              /\ emulXcvr'.forwarded = emulXcvr.forwarded
              /\ ~emulXcvr.stop_ => emulXcvr'.pc = "loop" /\ emulXcvr'.state_ = kRunning

EmulFilterFailureIsNotFatal == [][EmulFilterFailureStep]_vars

\* two packets forwarded in order by a transceiver whose filter did not compile
EmulFilterFailureWitness ==
    /\ emulXcvr.outcome = "compile"
    /\ emulXcvr.state_ = kRunning
    /\ emulXcvr.received = << 1, 2 >>
    /\ emulXcvr.forwarded = << 1, 2 >>

(***************************************************************************)
(* C18: in every reachable state of a replay, for non-negative measured    *)
(* elapsed times and any sequence delays, the overhead accumulator is at   *)
(* most 0: after each per-packet update in sendQueueTransmit, after each   *)
(* post-sequence and outer-loop delay step of run, and after each batch    *)
(* update overHead += usecDuration_ - measured, so that the assertion      *)
(* overHead <= 0 never fails.                                              *)
(***************************************************************************)
OverheadNeverPositive == run.overHead <= 0

(***************************************************************************)
(* C19: in the per-packet path, for a sequence with non-decreasing         *)
(* timestamps, after every packet step overHead = overHead on entry + the  *)
(* gaps so far - the measured times so far - the waits so far; the         *)
(* lateness of a packet, -overHead, is reset to zero whenever a positive   *)
(* wait is performed; and for N packets at a constant gap G, every         *)
(* measured time smaller than G, the waits plus the measured times from    *)
(* the first packet to the last equal the target total gap.                *)
(***************************************************************************)
\* in a call of sendQueueTransmit, or back from one
PerPacketCall ==
    \/ run.pc \in { "sqWait", "sqSend" }
    \/ run.pc = "ret" /\ ~TakesFastPath(CurSeq)

OverheadConserved ==
    PerPacketCall =>
        run.overHead = run.acct.in + run.acct.gaps - run.acct.ovh - run.acct.waits

WaitResetsLateness ==
    (run.pc = "sqWait" /\ run'.pc = "sqSend" /\ run'.acct.waits > run.acct.waits)
        => run'.overHead = 0

\* the call has sent every packet of its sequence
CallDone == PerPacketCall /\ run.pc = "ret" /\ run.ret = 0

ConstantGap(pkts, G) ==
    /\ Len(pkts) >= 2
    /\ \A n \in 2 .. Len(pkts) : TsDiff(pkts[n], pkts[n - 1]) = G

\* the waits and measured times between the first packet and the last
Span == run.acct.ovh + run.acct.waits - run.acct.ovh1

NoDriftAtConstantGap ==
    \A G \in 1 .. 300 :
        (CallDone /\ ConstantGap(CurSeq.pkts, G) /\ run.acct.maxOvh < G)
            => Span = (Len(CurSeq.pkts) - 1) * G

SpanFollowsLateness ==
    CallDone =>
        Span = run.acct.gaps - (run.acct.ovh1 - run.acct.in) + (0 - run.overHead)

BeginsWait ==
    /\ trace' # trace
    /\ trace' # << >>
    /\ IsWait(trace'[Len(trace')])

NoWaitAfterStop == [][(stop_ /\ state_ = kRunning) => ~BeginsWait]_vars

(***************************************************************************)
(* C21: after any sequence of clearPacketList, loopNextPacketSet and       *)
(* appendToPacketList calls, every sequence at index g of the list has     *)
(* 1 <= repeatSize_ <= list length - g; the start of a group that was      *)
(* split over several sequences has repeatSize_ equal to the number of     *)
(* sequences from the start through the one holding the group's last       *)
(* packet, and every other sequence has repeatSize_ 1.                     *)
(***************************************************************************)
\* the closed groups that start at g and end in a later sequence
SplitGroupsAt(g) == { c \in closedGroups : c.start = g /\ c.last > g }

RepeatSizeBound ==
    \A g \in 0 .. Len(packetSequenceList_) - 1 :
        LET size == At(packetSequenceList_, g).repeatSize_ IN
        /\ size >= 1
        /\ size <= Len(packetSequenceList_) - g
        /\ \A c \in SplitGroupsAt(g) : size = c.last - g + 1
        /\ SplitGroupsAt(g) = {} => size = 1

\* a group of two packets split over two sequences, followed by one more
\* sequence
RepeatSizeBoundWitness ==
    /\ Len(packetSequenceList_) = 3
    /\ SplitGroupsAt(0) # {}
    /\ At(packetSequenceList_, 0).repeatSize_ = 2
    /\ At(packetSequenceList_, 0).pkts # << >>

(***************************************************************************)
(* C22: for every list built through clearPacketList, loopNextPacketSet    *)
(* and appendToPacketList and every outer-loop setting, every index i and  *)
(* i + k the replay loop uses to read a sequence is at least 0 and less    *)
(* than the length of the list, also after the jump back to returnToQIdx_. *)
(***************************************************************************)
ReplayIndicesInBounds ==
    /\ run.pc = "restart" => InList(packetSequenceList_, run.i)
    /\ (run.pc = "forK" /\ run.k < run.rptSz)
          => InList(packetSequenceList_, run.i + run.k)

(***************************************************************************)
(* C23: under any interleaving of stop() with the worker, whenever the     *)
(* transmitter's state is Finished and no stop() call is in progress,      *)
(* stop_ is false, so that a start() issued after stop() has returned is   *)
(* not cancelled by the earlier stop request.                              *)
(***************************************************************************)
StopInProgress == ctl \in { "stopSet", "stopping" }

NoStaleStopRequest == (state_ = kFinished /\ ~StopInProgress) => ~stop_

(***************************************************************************)
(* C24: in the per-packet transmit path, once stop_ has been set while the *)
(* transmitter is Running, at most one further packet is emitted on the    *)
(* handle before the worker becomes Finished, whatever point of the replay *)
(* the worker is at.                                                       *)
(***************************************************************************)
IsStop(ev) == ev.e = "stop"

RECURSIVE SinceStop(_)
\* the events after the last stop request of the trace; a request made before
\* the trace began leaves the whole trace
SinceStop(tr) ==
    IF tr = << >> THEN << >>
    ELSE IF IsStop(tr[Len(tr)]) THEN << >>
    ELSE Append(SinceStop(SubSeq(tr, 1, Len(tr) - 1)), tr[Len(tr)])

PacketsAfterStop == Len(SelectSeq(SinceStop(trace), IsPkt))

AtMostOnePacketAfterStop ==
    (stop_ /\ state_ = kRunning /\ ~fastPath) => PacketsAfterStop <= 1

\* stop_ was set during the wait before the second packet of a sequence: that
\* packet has gone out and the call is returning -2
AtMostOnePacketAfterStopWitness ==
    /\ stop_ /\ state_ = kRunning /\ ~fastPath
    /\ PacketsAfterStop = 1
    /\ Len(SelectSeq(trace, IsPkt)) = 2
    /\ run.pc = "ret" /\ run.ret = -2

(***************************************************************************)
(* The monitors on their own, from init() to ~PcapPort(), reading packets  *)
(* of either wire length. Each monitor is a thread of its own and its read *)
(* returns within the handle's timeout, so each keeps taking steps.        *)
(***************************************************************************)
WireLens == { 1, 2 }

MonitorNext ==
    \/ init
    \/ \E d \in Directions : MonitorTest(d)
    \/ \E d \in Directions, ret \in MonitorReturns, len \in WireLens : MonitorReturn(d, ret, len)
    \/ DtorStopRx \/ DtorStopTx \/ DtorEmulStop \/ DtorCapturer \/ DtorTransmitter
    \/ DtorWaitRx \/ DtorWaitTx

SpecMonitor ==
    /\ InitPort
    /\ [][MonitorNext]_vars
    /\ \A d \in Directions :
          WF_vars(MonitorTest(d) \/ \E ret \in MonitorReturns, len \in WireLens :
                                      MonitorReturn(d, ret, len))

(***************************************************************************)
(* C25: for each packet the Rx monitor reads it adds 1 to rxPkts and the   *)
(* wire length to rxBytes and leaves txPkts and txBytes unchanged; for     *)
(* each packet the Tx monitor reads it adds 1 to txPkts and the wire       *)
(* length to txBytes only if it is directional, otherwise changes no       *)
(* counter, and it never changes rxPkts or rxBytes; timeouts and read      *)
(* errors change no counter.                                               *)
(***************************************************************************)
Plus(counter, n) == (counter + n) % CounterMod

MonitorCountingStep ==
    \A len \in WireLens :
        /\ MonitorReturn(kDirectionRx, 1, len) =>
              /\ portStats'.rxPkts = Plus(portStats.rxPkts, 1)
              /\ portStats'.rxBytes = Plus(portStats.rxBytes, len)
              /\ portStats'.txPkts = portStats.txPkts
              /\ portStats'.txBytes = portStats.txBytes
        /\ MonitorReturn(kDirectionTx, 1, len) =>
              /\ portStats'.rxPkts = portStats.rxPkts
              /\ portStats'.rxBytes = portStats.rxBytes
              /\ IF monitor[kDirectionTx].isDirectional_
                 THEN /\ portStats'.txPkts = Plus(portStats.txPkts, 1)
                      /\ portStats'.txBytes = Plus(portStats.txBytes, len)
                 ELSE /\ portStats'.txPkts = portStats.txPkts
                      /\ portStats'.txBytes = portStats.txBytes
        /\ \A d \in Directions, ret \in MonitorReturns \ { 1 } :
              MonitorReturn(d, ret, len) => portStats' = portStats

MonitorCountingIsDirectionExact == [][MonitorCountingStep]_vars

\* the Rx monitor has counted a packet of wire length 2, and the Tx monitor,
\* which is not directional, has counted nothing
MonitorCountingWitness ==
    /\ ~monitor[kDirectionTx].isDirectional_
    /\ monitor[kDirectionTx].pc = "test"
    /\ portStats = [ rxPkts |-> 1, rxBytes |-> 2, txPkts |-> 0, txBytes |-> 0 ]

(***************************************************************************)
(* C26: the monitor loop never exits because of a read timeout or a read   *)
(* error, and once stop() has set stop_ the loop exits after at most one   *)
(* further return of the read, so that the monitor worker eventually       *)
(* terminates.                                                             *)
(***************************************************************************)
MonitorLoopStep ==
    \A d \in Directions :
        \* the worker leaves run() only with stop_ set
        /\ (monitor[d].pc # "none" /\ monitor'[d].pc = "none") => monitor[d].stop_
        \* a read that returns without stop_ set is followed by another read
        /\ (monitor[d].pc = "test" /\ ~monitor[d].stop_ /\ monitor'[d].pc # "test")
              => monitor'[d].pc = "read"
        \* with stop_ set no read begins: the one in progress is the last
        /\ (monitor[d].stop_ /\ monitor[d].pc # "read") => monitor'[d].pc # "read"

MonitorEndsOnlyOnStop ==
    /\ [][MonitorLoopStep]_vars
    /\ \A d \in Directions : monitor[d].stop_ ~> (monitor[d].pc = "none")

\* both monitors were reading when stop() was called and both have ended
MonitorEndsWitness ==
    /\ \A d \in Directions : monitor[d].stop_ /\ monitor[d].pc = "none"
    /\ portPc = "dtorWaitTx"
    /\ portStats.rxPkts = 2

(***************************************************************************)
(* C27: in every reachable state where the capturer's state is Finished    *)
(* (after a normal stop, after a read error, and after a failed start      *)
(* where the handle opened but the filter did not compile or apply), the   *)
(* handles that run opened have been closed and the capturer holds no open *)
(* handle.                                                                 *)
(***************************************************************************)
CapturerLeavesNoHandleOpen ==
    capturer.state_ = kFinished => capturer.handle_ = NoHandle
====
